---- MODULE Spec2Model ----
(***************************************************************************)
(* Model of the property-data tools of the real-estate assistant           *)
(* (src/tools.py, src/agent.py): the address parser, the provider adapters *)
(* and tools, and the valuation report.                                    *)
(*                                                                         *)
(* Text is carried as a sequence of tokens.  A token is a separator (a     *)
(* space, a comma) or a run of characters that holds neither, so that      *)
(* str.split(','), str.split() and str.strip() act on whole tokens; the    *)
(* text a sequence stands for is the concatenation of its tokens.          *)
(***************************************************************************)
EXTENDS Integers, Sequences, FiniteSets, TLC

VARIABLES pc, op, address, hints, api_key, requests, response, outcome,
          user_input, conversation_state, messages, processed_messages, trace

vars == <<pc, op, address, hints, api_key, requests, response, outcome,
          user_input, conversation_state, messages, processed_messages, trace>>

\* the variables of the command-line loop and of the agent graph: the line
\* read by input(), conversation_state["messages"] of main, state["messages"] of the graph,
\* the list the chatbot node passed to the model, and the nodes executed in
\* the current run
agent_vars == <<user_input, conversation_state, messages, processed_messages, trace>>

NoConversation ==
    /\ user_input = ""
    /\ conversation_state = <<>>
    /\ messages = <<>>
    /\ processed_messages = <<>>
    /\ trace = <<>>

(***************************************************************************)
(* Bounds of the model.                                                    *)
(***************************************************************************)
MaxAddrLen == 7

(***************************************************************************)
(* Python values and text.                                                 *)
(***************************************************************************)
SP == " "
COMMA == ","
ZIP == "12345"
ST == "CA"
WORD == "Main"

Tokens == {SP, COMMA, ZIP, ST, WORD}

\* len(token)
TokLen(t) == CASE t = SP -> 1 [] t = COMMA -> 1 [] t = ZIP -> 5 [] t = ST -> 2 [] OTHER -> 4

\* token.upper() == token
TokUpperSame(t) == t # WORD

BoundedSeq(S, n) == UNION {[1..k -> S] : k \in 0..n}

RECURSIVE StrLen(_)
StrLen(s) == IF s = <<>> THEN 0 ELSE TokLen(Head(s)) + StrLen(Tail(s))

\* s.upper() == s
UpperSame(s) == \A i \in 1..Len(s) : TokUpperSame(s[i])

\* sep in s
Contains(s, sep) == \E i \in 1..Len(s) : s[i] = sep

\* s.split(sep): every separator cuts, empty parts are kept
RECURSIVE Split(_, _)
Split(s, sep) ==
    IF ~Contains(s, sep) THEN <<s>>
    ELSE LET i == CHOOSE k \in 1..Len(s) : s[k] = sep /\ \A j \in 1..(k-1) : s[j] # sep
         IN  <<SubSeq(s, 1, i-1)>> \o Split(SubSeq(s, i+1, Len(s)), sep)

RECURSIVE LStrip(_)
LStrip(s) == IF s # <<>> /\ Head(s) = SP THEN LStrip(Tail(s)) ELSE s

RECURSIVE RStrip(_)
RStrip(s) == IF s # <<>> /\ s[Len(s)] = SP THEN RStrip(SubSeq(s, 1, Len(s)-1)) ELSE s

\* s.strip()
Strip(s) == RStrip(LStrip(s))

\* s.split(): cut on runs of whitespace, no empty words
SplitWords(s) == SelectSeq(Split(s, SP), LAMBDA w : w # <<>>)

\* sep.join(parts)
RECURSIVE Join(_, _)
Join(parts, sep) ==
    IF parts = <<>> THEN <<>>
    ELSE IF Len(parts) = 1 THEN parts[1]
    ELSE parts[1] \o <<sep>> \o Join(Tail(parts), sep)

(***************************************************************************)
(* parse_address (src/tools.py).  The argument is a str, or None: the      *)
(* only statement of the body that can raise is address.split on a value   *)
(* that is no str, and the handler then keeps the defaults.                *)
(***************************************************************************)
StrArg(s) == [t |-> "str", s |-> s]
NoneArg == [t |-> "none", s |-> <<>>]

Returned(v) == [kind |-> "return", value |-> v]
Raised(e) == [kind |-> "raise", value |-> e]

AddressDefaults ==
    [street_address |-> <<>>, city |-> <<>>, state |-> <<>>, zip_code |-> <<>>]

\* parts[0] is the street address
StreetStep(a, parts) ==
    IF Len(parts) > 0 THEN [a EXCEPT !.street_address = Strip(parts[1])] ELSE a

\* s[k] stands as a word of its own
IsWordAt(s, k) ==
    /\ (k = 1 \/ s[k-1] \in {SP, COMMA})
    /\ (k = Len(s) \/ s[k+1] \in {SP, COMMA})

\* the place of the first state or zip word of a component, 0 when it has none
StateZipAt(c) ==
    LET hit == {k \in 1..Len(c) : c[k] \in {ST, ZIP} /\ IsWordAt(c, k)}
    IN  IF hit = {} THEN 0 ELSE CHOOSE k \in hit : \A j \in hit : k <= j

\* the city cut at the first state or zip word of the component
CityStepBeforeStateZip(a, parts) ==
    IF Len(parts) > 1
    THEN LET c == parts[2]
             cut == IF StateZipAt(c) = 0 THEN Len(c) + 1 ELSE StateZipAt(c)
         IN  [a EXCEPT !.city = Strip(SubSeq(c, 1, cut - 1))]
    ELSE a

\* parts[1] is the city
CityStep(a, parts) ==
    IF Len(parts) > 1 THEN [a EXCEPT !.city = Strip(parts[2])] ELSE a

\* the state is read, the zip code is forgotten
StateZipStepNoZip(a, parts) ==
    IF Len(parts) > 2
    THEN LET state_zip_parts == SplitWords(Strip(parts[3]))
         IN  IF Len(state_zip_parts) > 0
             THEN [a EXCEPT !.state = state_zip_parts[1]] ELSE a
    ELSE a

\* parts[2] holds the state, then the zip code
StateZipStep(a, parts) ==
    IF Len(parts) > 2
    THEN LET state_zip_parts == SplitWords(Strip(parts[3]))
             a1 == IF Len(state_zip_parts) > 0
                   THEN [a EXCEPT !.state = Strip(state_zip_parts[1])] ELSE a
         IN  IF Len(state_zip_parts) > 1
             THEN [a1 EXCEPT !.zip_code = Strip(Join(Tail(state_zip_parts), SP))]
             ELSE a1
    ELSE a

\* the special case without the check of the word's length
NonCommaStepNoLengthCheck(a, addr) ==
    IF a.city = <<>> /\ Contains(addr, SP)
    THEN LET words == SplitWords(addr)
             n == Len(words)
         IN  IF n >= 3 /\ UpperSame(words[n-1])
             THEN [a EXCEPT !.state = words[n-1], !.zip_code = words[n],
                            !.street_address = Join(SubSeq(words, 1, n-2), SP)]
             ELSE a
    ELSE a

\* the "non-comma format": no city so far and a space in the address
NonCommaStep(a, addr) ==
    IF a.city = <<>> /\ Contains(addr, SP)
    THEN LET words == SplitWords(addr)
             n == Len(words)
         IN  IF n >= 3
             THEN IF UpperSame(words[n-1]) /\ StrLen(words[n-1]) <= 2
                  THEN LET b == [a EXCEPT !.state = words[n-1],
                                          !.zip_code = words[n],
                                          !.street_address = Join(SubSeq(words, 1, n-2), SP)]
                           street_parts == Split(b.street_address, COMMA)
                           m == Len(street_parts)
                       IN  IF m > 1
                           THEN [b EXCEPT !.city = Strip(street_parts[m]),
                                          !.street_address =
                                              Strip(Join(SubSeq(street_parts, 1, m-1), COMMA))]
                           ELSE b
                  ELSE a
             ELSE a
    ELSE a

\* the handler lets the exception out
ParseAddressExceptReraise(a) == Raised("AttributeError")

\* except Exception: the error is printed and the parts so far are returned
ParseAddressExcept(a) == Returned(a)

parse_address(arg) ==
    IF arg.t # "str" THEN ParseAddressExcept(AddressDefaults)
    ELSE LET parts == Split(arg.s, COMMA)
             a1 == StreetStep(AddressDefaults, parts)
             a2 == CityStep(a1, parts)
             a3 == StateZipStep(a2, parts)
         IN  Returned(NonCommaStep(a3, arg.s))

(***************************************************************************)
(* The address parser on its own: every address of at most MaxAddrLen      *)
(* tokens, and None.                                                       *)
(***************************************************************************)
NoRecord == [kind |-> "none", value |-> <<>>]

AddressArgs == {StrArg(s) : s \in BoundedSeq(Tokens, MaxAddrLen)} \cup {NoneArg}

ParseInit ==
    /\ pc = "called"
    /\ op = "parse_address"
    /\ address \in AddressArgs
    /\ hints = <<>>
    /\ api_key = "unset"
    /\ requests = <<>>
    /\ response = <<>>
    /\ outcome = NoRecord
    /\ NoConversation

ParseAddressCall ==
    /\ pc = "called"
    /\ op = "parse_address"
    /\ outcome' = parse_address(address)
    /\ pc' = "done"
    /\ UNCHANGED <<op, address, hints, api_key, requests, response>>
    /\ UNCHANGED agent_vars

ParseNext == ParseAddressCall

ParseSpec == ParseInit /\ [][ParseNext]_vars

(***************************************************************************)
(* Python and JSON values.  A JSON number is carried in thousandths        *)
(* (Scale), so that 221000.75 and 0.299 are integers of the model; Missing *)
(* is a key that the object does not hold, Null is JSON null / None.       *)
(***************************************************************************)
Scale == 10 * 10 * 10

Missing == [t |-> "missing", v |-> 0, s |-> ""]
Null == [t |-> "null", v |-> 0, s |-> ""]
Num(n) == [t |-> "num", v |-> n, s |-> ""]
Whole(n) == Num(n * Scale)
Str(x) == [t |-> "str", v |-> 0, s |-> x]

\* d.get(key, default)
Get(x, default) == IF x.t = "missing" THEN default ELSE x

\* bool(x)
Truthy(x) == (x.t = "num" /\ x.v # 0) \/ (x.t = "str" /\ x.s # "")

\* x or y
Or(x, y) == IF Truthy(x) THEN x ELSE y

\* isinstance(x, (int, float))
IsNumber(x) == x.t = "num"

(***************************************************************************)
(* Rendering of numbers, as sequences of characters.                       *)
(***************************************************************************)
DigitChar(d) ==
    CASE d = 0 -> "0" [] d = 1 -> "1" [] d = 2 -> "2" [] d = 3 -> "3" [] d = 4 -> "4"
      [] d = 5 -> "5" [] d = 6 -> "6" [] d = 7 -> "7" [] d = 8 -> "8" [] OTHER -> "9"

RECURSIVE DigitsOf(_)
DigitsOf(n) == IF n < 10 THEN <<DigitChar(n)>> ELSE DigitsOf(n \div 10) \o <<DigitChar(n % 10)>>

\* a comma before every group of three digits counted from the right
RECURSIVE Grouped(_)
Grouped(ds) ==
    IF Len(ds) <= 3 THEN ds
    ELSE Grouped(SubSeq(ds, 1, Len(ds) - 3)) \o <<",">> \o SubSeq(ds, Len(ds) - 2, Len(ds))

Abs(n) == IF n < 0 THEN -n ELSE n

Sign(n) == IF n < 0 THEN <<"-">> ELSE <<>>

\* int(x) of a number: the fraction is cut off, towards zero
IntOf(v) == IF v >= 0 THEN v \div Scale ELSE -((-v) \div Scale)

\* f"{n}" of an int
PlainInt(n) == Sign(n) \o DigitsOf(Abs(n))

\* f"{n:,}" of an int
CommaInt(n) == Sign(n) \o Grouped(DigitsOf(Abs(n)))

\* the digits of a fraction given in thousandths, trailing zeros dropped
FractionDigits(f) ==
    LET d3 == <<DigitChar(f \div 100), DigitChar((f \div 10) % 10), DigitChar(f % 10)>>
    IN  IF f % 100 = 0 THEN SubSeq(d3, 1, 1)
        ELSE IF f % 10 = 0 THEN SubSeq(d3, 1, 2) ELSE d3

\* f"{x}" of a number: an int as it is, a float with its fraction
PlainNumber(v) ==
    IF v % Scale = 0 THEN PlainInt(v \div Scale)
    ELSE Sign(v) \o DigitsOf(Abs(v) \div Scale) \o <<".">> \o FractionDigits(Abs(v) % Scale)

\* f"{x:.2f}": rounded to the nearest hundredth (the model's values are no ties)
Fixed2(v) ==
    LET h == (Abs(v) + 5) \div 10
    IN  Sign(v) \o DigitsOf(h \div 100) \o <<".">> \o
        <<DigitChar((h \div 10) % 10), DigitChar(h % 10)>>

\* f"${int(x):,}"
Currency(v) == <<"$">> \o CommaInt(IntOf(v))

\* f"{x:,}" of an int or of a float with a fraction
CommaNumber(v) ==
    IF v % Scale = 0 THEN CommaInt(v \div Scale)
    ELSE Sign(v) \o Grouped(DigitsOf(Abs(v) \div Scale)) \o <<".">>
         \o FractionDigits(Abs(v) % Scale)

\* f"{x}" of a JSON value: a string as it is, None as "None", a number plainly
FormatValue(x) ==
    IF x.t = "str" THEN <<x.s>>
    ELSE IF x.t = "num" THEN PlainNumber(x.v)
    ELSE <<"None">>

(***************************************************************************)
(* Calls, requests, responses and outcomes.                                *)
(*                                                                         *)
(* api_key is what os.environ.get returns: NoKey (None), "" or a key.      *)
(* A response is a transport failure or an HTTP response with a status and *)
(* a body; a body is no JSON, a JSON array or a JSON object.  An outcome   *)
(* is a raised exception (exc, msg) or a returned value; msg and text are  *)
(* sequences of pieces whose first piece is the literal the code starts    *)
(* the message with.                                                       *)
(***************************************************************************)
NoKey == "<None>"
Credentials == {NoKey, "", "key-A"}

\* if not api_key
KeyNotConfigured(k) == k = NoKey \/ k = ""

SampleAddresses ==
    {StrArg(<<WORD, COMMA, SP, WORD, COMMA, SP, ST, SP, ZIP>>), StrArg(<<WORD, SP, WORD>>),
     StrArg(<<>>), StrArg(<<SP>>)}

NoHints == [property_type |-> Null, bedrooms |-> Null, bathrooms |-> Null,
            square_footage |-> Null]
AllHints == [property_type |-> Str("Condo"), bedrooms |-> Whole(3),
             bathrooms |-> Num(2500), square_footage |-> Whole(1500)]
\* every hint given with a falsy value
ZeroHints == [property_type |-> Str(""), bedrooms |-> Whole(0), bathrooms |-> Whole(0),
              square_footage |-> Whole(0)]
BedroomsOnly == [property_type |-> Null, bedrooms |-> Whole(3), bathrooms |-> Null,
                 square_footage |-> Null]
SampleHints == {NoHints, AllHints, ZeroHints, BedroomsOnly}

Request(url, params, key) == [url |-> url, params |-> params, key |-> key]

ConnectionFailed == [kind |-> "connection_error", status |-> 0, body |-> <<>>]
Http(status, body) == [kind |-> "http", status |-> status, body |-> body]

NonJson == [shape |-> "nonjson"]
JsonList(items) == [shape |-> "array", items |-> items]

OkStatus == 200
OtherStatuses == {201, 300, 404}

\* response.raise_for_status(): an HTTPError for 4xx and 5xx
RaisesForStatus(status) == status >= 400 /\ status < 600

Ok(v) == [ok |-> TRUE, val |-> v]
Exc(type, text) == [ok |-> FALSE, exc |-> type, msg |-> text]

RaiseValueError(msg) == Raised([exc |-> "ValueError", msg |-> msg])
ReturnText(text) == Returned([text |-> text])

StatusText(status) ==
    CASE status = 404 -> "404 Client Error: Not Found for url: "
      [] status = 300 -> "300 Multiple Choices"
      [] status = 201 -> "201 Created"
      [] OTHER -> "200 OK"

\* the HTTPError text of a request that carries the credential in its URL
HttpErrorTextWithKey(status, url) == <<StatusText(status), url, "?apikey=", api_key>>

\* str(e) of the HTTPError of raise_for_status
HttpErrorText(status, url) == <<StatusText(status), url>>

JsonErrorText == <<"Expecting value: line 1 column 1 (char 0)">>

\* a list value of a JSON object: Missing, Null or a list of items
NoList == [t |-> "missing", items |-> <<>>]
NullList == [t |-> "null", items |-> <<>>]
List(items) == [t |-> "list", items |-> items]
GetList(x, default) == IF x.t = "missing" THEN List(default) ELSE x

(***************************************************************************)
(* The valuation provider (Rentcast AVM): get_property_valuation and the   *)
(* tool property_valuation.  squareFootage and daysOnMarket are whole      *)
(* numbers.                                                                *)
(***************************************************************************)
MaxComps == 2
CompCount == 20
MaxListed == 5

AvmUrl == "https://api.rentcast.io/v1/avm/value"

Comparables ==
    [price : {Num(30000000), Num(1200500)},
     squareFootage : {Whole(4), Whole(0), Missing},
     daysOnMarket : {Whole(17)},
     distance : {Num(299), Num(1000)}]

\* price and <<priceRangeLow, priceRangeHigh>> of the body
Subjects ==
    {<<Whole(221000), <<Whole(208000), Whole(234000)>>>>,
     <<Num(221000750), <<Num(208000500), Whole(234000)>>>>,
     <<Missing, <<Missing, Missing>>>>,
     <<Str("N/A"), <<Whole(208000), Whole(234000)>>>>,
     <<Whole(221000), <<Null, Null>>>>}

ValuationObject(subject, comparables) ==
    [shape |-> "object", price |-> subject[1], range |-> subject[2],
     comparables |-> comparables]

\* a list of n comparables told apart by their prices and days on market;
\* only the first gives a squareFootage
ManyComps == 6

LongComparables(n) ==
    [i \in 1..n |-> [price |-> Whole(1000 * i),
                     squareFootage |-> IF i = 1 THEN Whole(2) ELSE Missing,
                     daysOnMarket |-> Whole(10 + i),
                     distance |-> Num(1000)]]

\* every subject with a few lists, and one subject with every list
FewComparableLists ==
    {NoList, List(<<>>),
     List(<<[price |-> Num(30000000), squareFootage |-> Whole(4),
             daysOnMarket |-> Whole(17), distance |-> Num(299)]>>)}

ValuationObjects ==
    {ValuationObject(sub, c) : sub \in Subjects, c \in FewComparableLists}
    \cup {ValuationObject(<<Whole(221000), <<Whole(208000), Whole(234000)>>>>, List(l)) :
             l \in BoundedSeq(Comparables, MaxComps)}
    \cup {ValuationObject(<<Whole(221000), <<Whole(208000), Whole(234000)>>>>,
                          List(LongComparables(n))) : n \in (MaxComps + 1)..ManyComps}

FewValuationBodies ==
    {NonJson, JsonList(<<>>),
     ValuationObject(<<Whole(221000), <<Whole(208000), Whole(234000)>>>>, List(<<>>))}

ValuationResponses ==
    {ConnectionFailed}
    \cup {Http(OkStatus, b) : b \in ValuationObjects \cup {NonJson, JsonList(<<>>)}}
    \cup {Http(st, b) : st \in OtherStatuses, b \in FewValuationBodies}

\* the query parameters with every hint tested for truth, so that 0 is not sent
ValuationParamsTruthy(addr, h) ==
    [address |-> addr.s,
     propertyType |-> IF Truthy(h.property_type) THEN h.property_type ELSE Missing,
     bedrooms |-> IF Truthy(h.bedrooms) THEN h.bedrooms ELSE Missing,
     bathrooms |-> IF Truthy(h.bathrooms) THEN h.bathrooms ELSE Missing,
     squareFootage |-> IF Truthy(h.square_footage) THEN h.square_footage ELSE Missing,
     compCount |-> Whole(CompCount)]

\* the query parameters: a hint is sent when it was given
ValuationParams(addr, h) ==
    [address |-> addr.s,
     propertyType |-> IF Truthy(h.property_type) THEN h.property_type ELSE Missing,
     bedrooms |-> IF h.bedrooms.t # "null" THEN h.bedrooms ELSE Missing,
     bathrooms |-> IF h.bathrooms.t # "null" THEN h.bathrooms ELSE Missing,
     squareFootage |-> IF h.square_footage.t # "null" THEN h.square_footage ELSE Missing,
     compCount |-> Whole(CompCount)]

\* the query parameters without the comparable count
ParamsWithoutCompCount(addr, h) ==
    [ValuationParams(addr, h) EXCEPT !.compCount = Missing]

\* the query parameters as get_property_valuation builds them
get_property_valuation_Params(addr, h) ==
    [address |-> addr.s,
     propertyType |-> IF Truthy(h.property_type) THEN h.property_type ELSE Missing,
     bedrooms |-> IF h.bedrooms.t # "null" THEN h.bedrooms ELSE Missing,
     bathrooms |-> IF h.bathrooms.t # "null" THEN h.bathrooms ELSE Missing,
     squareFootage |-> IF h.square_footage.t # "null" THEN h.square_footage ELSE Missing,
     compCount |-> Whole(CompCount)]

CompPrice(comp) == Get(comp.price, Whole(0)).v
CompDays(comp) == Get(comp.daysOnMarket, Whole(0)).v
\* comp.get("squareFootage", 1), in whole square feet
CompAreaOrOne(comp) == IntOf(Get(comp.squareFootage, Whole(1)).v)

RECURSIVE SumPrices(_)
SumPrices(comps) == IF comps = <<>> THEN 0 ELSE CompPrice(Head(comps)) + SumPrices(Tail(comps))

RECURSIVE SumDays(_)
SumDays(comps) == IF comps = <<>> THEN 0 ELSE CompDays(Head(comps)) + SumDays(Tail(comps))

RECURSIVE SumAreas(_)
SumAreas(comps) == IF comps = <<>> THEN 0 ELSE CompAreaOrOne(Head(comps)) + SumAreas(Tail(comps))

\* sum of the prices over sum of the areas, as the same kind of fraction
RatioOfSums(comps) == <<SumPrices(comps), SumAreas(comps)>>

\* sum of price / squareFootage as a fraction <<numerator, denominator>>,
\* the numerator in thousandths
RECURSIVE RatioSum(_)
RatioSum(comps) ==
    IF comps = <<>> THEN <<0, 1>>
    ELSE LET r == RatioSum(Tail(comps))
             a == CompAreaOrOne(Head(comps))
         IN  <<r[1] * a + CompPrice(Head(comps)) * r[2], r[2] * a>>

\* the averages without the guard of the empty list: a division by len() = 0
AveragesUnguarded(comps) ==
    IF comps = <<>> \/ \E i \in 1..Len(comps) : CompAreaOrOne(comps[i]) = 0
    THEN Exc("ZeroDivisionError", <<"division by zero">>)
    ELSE Ok([avg_price |-> SumPrices(comps) \div Len(comps),
             avg_price_per_sqft |-> RatioSum(comps)[1] \div (RatioSum(comps)[2] * Len(comps)),
             avg_days |-> SumDays(comps) \div Len(comps)])

\* avg_price, avg_price_per_sqft and avg_days, in thousandths; 0 for no comparables
Averages(comps) ==
    IF comps = <<>>
    THEN Ok([avg_price |-> 0, avg_price_per_sqft |-> 0, avg_days |-> 0])
    ELSE IF \E i \in 1..Len(comps) : CompAreaOrOne(comps[i]) = 0
    THEN Exc("ZeroDivisionError", <<"division by zero">>)
    ELSE Ok([avg_price |-> SumPrices(comps) \div Len(comps),
             avg_price_per_sqft |-> RatioSum(comps)[1] \div (RatioSum(comps)[2] * Len(comps)),
             avg_days |-> SumDays(comps) \div Len(comps)])

\* the lines of one comparable of the report
CompLines(i, comp) ==
    [number |-> PlainInt(i),
     address |-> "Unknown",
     price |-> Currency(CompPrice(comp)),
     bedrooms |-> PlainInt(0),
     bathrooms |-> PlainNumber(0),
     square_feet |-> CommaInt(IntOf(Get(comp.squareFootage, Whole(0)).v)),
     year_built |-> PlainInt(0),
     distance |-> Fixed2(Get(comp.distance, Whole(0)).v) \o <<" ", "m", "i", "l", "e", "s">>,
     days_on_market |-> PlainNumber(CompDays(comp))]

\* no limit: the second number whatever the first
SecondOf(a, b) == b

Min(a, b) == IF a < b THEN a ELSE b

\* the estimated value: a value that is no number becomes 0
EstimatedValueOf(body) ==
    LET price == Get(body.price, Whole(0)) IN IF IsNumber(price) THEN price.v ELSE 0

\* the report of property_valuation from a parsed body
ValuationReport(addr, body) ==
    IF body.shape # "object"
    THEN Exc("AttributeError", <<"'list' object has no attribute 'get'">>)
    ELSE LET low == Get(body.range[1], Whole(0))
             high == Get(body.range[2], Whole(0))
             comparables == GetList(body.comparables, <<>>)
             comps == comparables.items
             avgs == Averages(comps)
         IN  IF comparables.t = "null"
             THEN Exc("TypeError", <<"object of type 'NoneType' has no len()">>)
             ELSE IF ~IsNumber(low) \/ ~IsNumber(high)
             THEN Exc("TypeError", <<"int() argument must be a string or a number">>)
             ELSE IF ~avgs.ok THEN avgs
             ELSE Ok([text |-> <<"PROPERTY VALUATION REPORT:">>,
                      address |-> addr.s,
                      estimated_value |-> Currency(EstimatedValueOf(body)),
                      range_low |-> Currency(low.v),
                      range_high |-> Currency(high.v),
                      found |-> PlainInt(Len(comps)),
                      comps |-> [i \in 1..Min(MaxListed, Len(comps)) |-> CompLines(i, comps[i])],
                      avg_price |-> Currency(avgs.val.avg_price),
                      avg_price_per_sqft |-> <<"$">> \o PlainInt(IntOf(avgs.val.avg_price_per_sqft)),
                      avg_days |-> PlainInt(IntOf(avgs.val.avg_days)) \o <<" ", "d", "a", "y", "s">>,
                      count |-> PlainInt(Len(comps))])

\* the key is sliced for the debug line before it is checked
ValuationToolNoKey(k) ==
    IF k = NoKey
    THEN Raised([exc |-> "TypeError", msg |-> <<"'NoneType' object is not subscriptable">>])
    ELSE ReturnText(<<"Error: API key not found in environment variables. Please add RENTCAST_API_KEY to your .env file.">>)

\* property_valuation, from the response to the returned text
ValuationToolOutcome(addr, resp) ==
    IF resp.kind = "connection_error"
    THEN ReturnText(<<"Error retrieving property valuation: ", "ConnectionError">>)
    ELSE IF RaisesForStatus(resp.status)
    THEN ReturnText(<<"Error retrieving property valuation: HTTP error - ">>
                    \o HttpErrorText(resp.status, AvmUrl))
    ELSE IF resp.body.shape = "nonjson"
    THEN ReturnText(<<"Error retrieving property valuation: Invalid JSON response - ">>
                    \o JsonErrorText)
    ELSE LET r == ValuationReport(addr, resp.body)
         IN  IF r.ok THEN Returned(r.val)
             ELSE ReturnText(<<"Error retrieving property valuation: ">> \o r.msg)

\* one ComparableProperty of the record, built from provider entry comp
ComparableOf(comp) ==
    [address |-> "Unknown", property_type |-> "Unknown", bedrooms |-> 0, bathrooms |-> 0,
     square_footage |-> Get(comp.squareFootage, Whole(0)).v,
     year_built |-> 0,
     price |-> CompPrice(comp),
     listing_type |-> "Unknown",
     days_on_market |-> CompDays(comp),
     distance |-> Get(comp.distance, Whole(0)).v]

\* the comparables taken last to first
ComparablePropertiesReversed(raw_comparables) ==
    [i \in 1..Len(raw_comparables) |->
        ComparableOf(raw_comparables[Len(raw_comparables) + 1 - i])]

\* comparable_properties: one ComparableProperty appended per provider entry
ComparableProperties(raw_comparables) ==
    [i \in 1..Len(raw_comparables) |-> ComparableOf(raw_comparables[i])]

\* the PropertyValuationOutput of get_property_valuation from a parsed body
ValuationRecord(addr, body) ==
    IF body.shape # "object"
    THEN Exc("AttributeError", <<"'list' object has no attribute 'get'">>)
    ELSE LET estimated_value == Get(body.price, Whole(0))
             low == Get(body.range[1], Whole(0))
             high == Get(body.range[2], Whole(0))
             raw_comparables == GetList(body.comparables, <<>>)
         IN  IF raw_comparables.t = "null"
             THEN Exc("TypeError", <<"'NoneType' object is not iterable">>)
             ELSE IF ~IsNumber(estimated_value) \/ ~IsNumber(low) \/ ~IsNumber(high)
             THEN Exc("ValidationError", <<"validation error for PropertyValuationOutput">>)
             ELSE Ok([address |-> addr.s,
                      estimated_value |-> estimated_value.v,
                      value_range_low |-> low.v,
                      value_range_high |-> high.v,
                      comparables |-> ComparableProperties(raw_comparables.items)])

\* get_property_valuation, from the response to the record or the ValueError
ValuationAdapterOutcome(addr, resp) ==
    IF resp.kind = "connection_error"
    THEN RaiseValueError(<<"Unexpected error when calling Rentcast API for valuation: ",
                           "ConnectionError">>)
    ELSE IF RaisesForStatus(resp.status)
    THEN RaiseValueError(<<"HTTP error when calling Rentcast API for valuation: ">>
                         \o HttpErrorText(resp.status, AvmUrl))
    ELSE IF resp.body.shape = "nonjson"
    THEN RaiseValueError(<<"Failed to parse Rentcast API valuation response as JSON: ">>
                         \o JsonErrorText)
    ELSE LET r == ValuationRecord(addr, resp.body)
         IN  IF r.ok THEN Returned(r.val)
             ELSE RaiseValueError(<<"Unexpected error when calling Rentcast API for valuation: ">>
                                  \o r.msg)

(***************************************************************************)
(* The ATTOM provider: get_property_details (src/tools.py) and the tool    *)
(* property_details (src/agent.py).  Both go through http.client and read  *)
(* the body whatever the HTTP status is.                                   *)
(***************************************************************************)
ProtocolFailed == [kind |-> "http_exception", status |-> 0, body |-> <<>>]

AttomHost == "api.gateway.attomdata.com"

Rooms ==
    [bathstotal : {Missing, Null, Whole(0), Num(2500), Whole(3)},
     bathsfull : {Missing, Null, Whole(0), Whole(2)},
     bathshalf : {Missing, Whole(0), Whole(1)},
     beds : {Whole(3)}]

\* a property as the adapter reads it: building.rooms, lot.lotsize1 and
\* lot.lotsize1unit, summary.proptype, assessment.market.mktttlvalue,
\* sale.salesearchdate and sale.amount.saleamt
AttomBase ==
    [rooms |-> [bathstotal |-> Num(2500), bathsfull |-> Whole(2), bathshalf |-> Whole(1),
                beds |-> Whole(3)],
     lotsize1 |-> Whole(5000), lotsize1unit |-> Missing,
     proptype |-> Str("SFR"),
     mktttlvalue |-> Whole(250000),
     salesearchdate |-> Str("2020-01-15"), saleamt |-> Whole(180000)]

AttomProperties ==
    {[AttomBase EXCEPT !.rooms = r] : r \in Rooms}
    \cup {[AttomBase EXCEPT !.lotsize1 = v, !.lotsize1unit = u] :
              v \in {Missing, Null, Whole(0), Whole(5000), Num(250)},
              u \in {Missing, Null, Str("acres")}}
    \cup {[AttomBase EXCEPT !.proptype = t] :
              t \in {Missing, Str("SFR"), Str("CONDO"), Str("TWNHS"), Str("MOBILE")}}
    \cup {[AttomBase EXCEPT !.mktttlvalue = v] :
              v \in {Missing, Null, Whole(0), Whole(250000), Num(250000500)}}
    \cup {[AttomBase EXCEPT !.salesearchdate = d, !.saleamt = a] :
              d \in {Missing, Str("2020-01-15"), Str("01/15/2020")},
              a \in {Missing, Null, Whole(0), Whole(180000)}}

AttomObject(code, msg, property) ==
    [shape |-> "object", status_code |-> code, status_msg |-> msg, property |-> property]

AttomObjects ==
    {AttomObject(Whole(0), "SuccessWithResult", List(<<p>>)) : p \in AttomProperties}
    \cup {AttomObject(c, "SuccessWithoutResult", l) :
             c \in {Missing, Whole(0), Whole(400)}, l \in {NoList, NullList, List(<<>>)}}
    \cup {AttomObject(Missing, "", List(<<p>>)) :
             p \in {AttomBase}}

FewAttomBodies ==
    {NonJson, JsonList(<<>>),
     AttomObject(Whole(0), "SuccessWithoutResult", List(<<>>)),
     AttomObject(Whole(400), "SuccessWithoutResult", NoList),
     AttomObject(Missing, "Unauthorized", NoList),
     AttomObject(Whole(0), "SuccessWithResult",
                 List(<<AttomBase>>))}

AttomResponses ==
    {ConnectionFailed, ProtocolFailed}
    \cup {Http(OkStatus, b) : b \in AttomObjects \cup {NonJson, JsonList(<<>>)}}
    \cup {Http(st, b) : st \in OtherStatuses, b \in FewAttomBodies}

\* address1 and address2 of the basicprofile query
AttomParams(addr) ==
    LET address_parts == parse_address(addr).value
    IN  [address1 |-> address_parts.street_address,
         address2 |-> address_parts.city \o <<COMMA, SP>> \o address_parts.state
                      \o <<SP>> \o address_parts.zip_code]

\* the half baths counted as whole baths
AttomBathroomsHalfAsWhole(rooms) ==
    LET bathstotal == Get(rooms.bathstotal, Whole(0))
    IN  IF Truthy(bathstotal) THEN bathstotal.v
        ELSE Or(Get(rooms.bathsfull, Whole(0)), Whole(0)).v
             + Or(Get(rooms.bathshalf, Whole(0)), Whole(0)).v

\* bathstotal, or bathsfull + bathshalf * 0.5 when bathstotal is not truthy
AttomBathrooms(rooms) ==
    LET bathstotal == Get(rooms.bathstotal, Whole(0))
    IN  IF Truthy(bathstotal) THEN bathstotal.v
        ELSE LET full_baths == Or(Get(rooms.bathsfull, Whole(0)), Whole(0))
                 half_baths == Or(Get(rooms.bathshalf, Whole(0)), Whole(0))
             IN  full_baths.v + (half_baths.v * 5) \div 10

\* lot_size: f"{lot_size_value} {lot_size_unit}", each with its `or` default
AttomLotSize(property_data) ==
    FormatValue(Or(Get(property_data.lotsize1, Whole(0)), Whole(0)))
    \o <<" ">> \o FormatValue(Or(Get(property_data.lotsize1unit, Str("sq ft")), Str("sq ft")))

\* property_type: the three codes of the if / elif chain, any other as it is
AttomPropertyType(property_data) ==
    LET property_type == Get(property_data.proptype, Str("Unknown")).s
    IN  CASE property_type = "SFR" -> "Single Family Residence"
          [] property_type = "CONDO" -> "Condominium"
          [] property_type = "TWNHS" -> "Townhouse"
          [] OTHER -> property_type

\* f"${value:,}" if value else the sentinel
MoneyOr(value, sentinel) ==
    IF Truthy(value) THEN <<"$">> \o CommaNumber(value.v) ELSE <<sentinel>>

\* last_sold: f"{sale_date} for {last_sold_price}"
AttomLastSold(property_data) ==
    FormatValue(Get(property_data.salesearchdate, Str(""))) \o <<" for ">>
    \o MoneyOr(Or(property_data.saleamt, Whole(0)), "Unknown")

\* the PropertyDetailsOutput built from property[0]
AttomRecord(property_data) ==
    LET rooms == property_data.rooms
        bedrooms == Or(Get(rooms.beds, Whole(0)), Whole(0))
    IN  [address |-> ", ",
         bedrooms |-> IntOf(bedrooms.v),
         bathrooms |-> AttomBathrooms(rooms),
         square_footage |-> 0,
         year_built |-> 0,
         lot_size |-> AttomLotSize(property_data),
         property_type |-> AttomPropertyType(property_data),
         estimated_value |-> MoneyOr(Or(property_data.mktttlvalue, Whole(0)), "Not available"),
         last_sold |-> AttomLastSold(property_data),
         photos |-> <<>>,
         property_id |-> ""]

\* the try block of get_property_details after the body is parsed
AttomAdapterBody(addr, body) ==
    IF body.shape # "object"
    THEN Exc("AttributeError", <<"'list' object has no attribute 'get'">>)
    ELSE IF Get(body.status_code, Whole(0)).v # 0
    THEN Exc("ValueError", <<"API error: ", body.status_msg>>)
    ELSE IF body.property.t # "list" \/ body.property.items = <<>>
    THEN Exc("ValueError", <<"No property found for address: ">> \o addr.s)
    ELSE Ok(AttomRecord(body.property.items[1]))

\* except Exception: whatever was raised in the try block is raised again
\* as "Unexpected error"
AttomAdapterExcept(e) ==
    RaiseValueError(<<"Unexpected error when calling ATTOM API: ">> \o e.msg)

\* get_property_details, from the response to the record or the ValueError
AttomAdapterOutcome(addr, resp) ==
    IF resp.kind = "http_exception"
    THEN RaiseValueError(<<"HTTP error when calling ATTOM API: ", "HTTPException">>)
    ELSE IF resp.kind = "connection_error"
    THEN AttomAdapterExcept(Exc("ConnectionError", <<"ConnectionError">>))
    ELSE IF resp.body.shape = "nonjson"
    THEN RaiseValueError(<<"Failed to parse ATTOM API response as JSON: ">> \o JsonErrorText)
    ELSE LET r == AttomAdapterBody(addr, resp.body)
         IN  IF r.ok THEN Returned(r.val) ELSE AttomAdapterExcept(r)

\* address.split(',', 1): the text before the first comma and the text after it
SplitFirst(s) ==
    IF ~Contains(s, COMMA) THEN <<s>>
    ELSE LET i == CHOOSE k \in 1..Len(s) : s[k] = COMMA /\ \A j \in 1..(k-1) : s[j] # COMMA
         IN  <<SubSeq(s, 1, i-1), SubSeq(s, i+1, Len(s))>>

\* urllib.parse.quote
Quote(s) ==
    [i \in 1..Len(s) |-> IF s[i] = SP THEN "%20" ELSE IF s[i] = COMMA THEN "%2C" ELSE s[i]]

\* the path of the detail request of property_details
AttomToolPath(addr) ==
    LET address_parts == SplitFirst(addr.s)
        address1 == Strip(address_parts[1])
        address2 == IF Len(address_parts) > 1 THEN Strip(address_parts[2]) ELSE <<>>
    IN  <<"/propertyapi/v1.0.0/property/detail?address1=">> \o Quote(address1)
        \o (IF Quote(address2) # <<>> THEN <<"&address2=">> \o Quote(address2) ELSE <<>>)

\* property_details, from the response to the returned text
AttomToolOutcome(addr, resp) ==
    IF resp.kind # "http"
    THEN ReturnText(<<"Error retrieving property details: ", resp.kind>>)
    ELSE IF resp.body.shape = "nonjson"
    THEN ReturnText(<<"Error retrieving property details: ">> \o JsonErrorText)
    ELSE IF resp.body.shape = "array" \/ resp.body.property.t = "missing"
    THEN ReturnText(<<"No property found for address: ">> \o addr.s)
    ELSE IF resp.body.property.t = "null"
    THEN ReturnText(<<"Error retrieving property details: ",
                      "object of type 'NoneType' has no len()">>)
    ELSE IF resp.body.property.items = <<>>
    THEN ReturnText(<<"No property found for address: ">> \o addr.s)
    ELSE Returned([text |-> <<"{">>, json |-> resp.body.property.items[1]])

(***************************************************************************)
(* The Rentcast property provider: get_property_details_rentcast and the   *)
(* tool property_details_rentcast.                                         *)
(***************************************************************************)
RentcastUrl == "https://api.rentcast.io/v1/properties"

MaxImages == 6
MaxPhotos == 5

ImageUrls ==
    <<"img-1.jpg", "img-2.jpg", "img-3.jpg", "img-4.jpg", "img-5.jpg", "img-6.jpg",
      "img-7.jpg", "img-8.jpg">>

\* the provider's image lists: n URLs, and a full list whose first entry is null
ImageLists ==
    {NoList, NullList}
    \cup {List([i \in 1..n |-> Str(ImageUrls[i])]) : n \in 0..MaxImages}
    \cup {List([i \in 1..MaxImages |-> IF i = 1 THEN Null ELSE Str(ImageUrls[i])])}

\* taxAssessments, a dict from year to assessment, as its list of items
Assessment(year, value) == [year |-> year, value |-> value]

TaxAssessments ==
    {NoList, List(<<>>),
     List(<<Assessment("2022", Whole(200000)), Assessment("2023", Whole(210000))>>),
     List(<<Assessment("2023", Whole(210000)), Assessment("2022", Whole(200000))>>),
     List(<<Assessment("2023", Whole(210000)), Assessment("latest", Whole(999000))>>),
     List(<<Assessment("2023", Whole(0))>>),
     List(<<Assessment("2023", Missing)>>),
     List(<<Assessment("2023", Whole(210000)), Assessment("02024", Whole(220000))>>)}

\* history, a dict from date to event, as its list of items
Event(key, event, date, price) == [key |-> key, event |-> event, date |-> date, price |-> price]

Histories ==
    {NoList, List(<<>>),
     List(<<Event("2021-03-01", "Listing", Str("2021-03-01"), Whole(199000))>>),
     List(<<Event("2019-05-01", "Sale", Str("2019-05-01"), Whole(150000)),
            Event("2020-01-15", "Sale", Str("2020-01-15"), Whole(180000))>>),
     List(<<Event("2020-01-15", "Sale", Str("2020-01-15"), Whole(180000)),
            Event("2019-05-01", "Sale", Str("2019-05-01"), Whole(150000))>>)}
    \cup {List(<<Event("2020-01-15", "Sale", d, a)>>) :
              d \in {Missing, Str("2020-01-15T00:00:00.000Z"), Str("2020-01-15"),
                     Str("01/15/2020")},
              a \in {Missing, Null, Whole(0), Whole(180000)}}

RentcastBase ==
    [bedrooms |-> Whole(3), bathrooms |-> Num(2500), lotSize |-> Whole(5000),
     propertyType |-> Str("Single Family"),
     taxAssessments |-> List(<<Assessment("2023", Whole(210000))>>),
     valuation |-> Missing,
     history |-> List(<<Event("2020-01-15", "Sale", Str("2020-01-15"), Whole(180000))>>),
     images |-> List(<<Str(ImageUrls[1])>>)]

RentcastProperties ==
    {[RentcastBase EXCEPT !.bedrooms = b, !.bathrooms = c] :
        b \in {Whole(3), Null}, c \in {Num(2500), Missing}}
    \cup {[RentcastBase EXCEPT !.lotSize = v] : v \in {Missing, Null, Whole(0), Whole(5000)}}
    \cup {[RentcastBase EXCEPT !.propertyType = t] :
              t \in {Missing, Str("SFR"), Str("CONDO"), Str("Single Family")}}
    \cup {[RentcastBase EXCEPT !.taxAssessments = t, !.valuation = v] :
              t \in TaxAssessments, v \in {Missing, Whole(0), Whole(190000)}}
    \cup {[RentcastBase EXCEPT !.history = h] : h \in Histories}
    \cup {[RentcastBase EXCEPT !.images = l] : l \in ImageLists}

RentcastBodies ==
    {NonJson, [shape |-> "object"], JsonList(<<>>)}
    \cup {JsonList(<<p>>) : p \in RentcastProperties}

FewRentcastBodies ==
    {NonJson, [shape |-> "object"], JsonList(<<>>),
     JsonList(<<RentcastBase>>)}

RentcastResponses ==
    {ConnectionFailed}
    \cup {Http(OkStatus, b) : b \in RentcastBodies}
    \cup {Http(st, b) : st \in OtherStatuses, b \in FewRentcastBodies}

\* lot_size: the sentinel for None and 0
RentcastLotSize(property_data) ==
    LET lot_size_value == Get(property_data.lotSize, Whole(0))
    IN  IF lot_size_value.t = "null" \/ (lot_size_value.t = "num" /\ lot_size_value.v = 0)
        THEN <<"Not available">>
        ELSE FormatValue(lot_size_value) \o <<" ", "sq ft">>

\* year.isdigit(), int(year) and str(latest_year) on the keys of the model
IsDigitText(year) == year \in {"2022", "2023", "02024"}
IntOfText(year) ==
    CASE year = "2022" -> 2022 [] year = "2023" -> 2023 [] year = "02024" -> 2024 [] OTHER -> 0
TextOfInt(n) ==
    CASE n = 2022 -> "2022" [] n = 2023 -> "2023" [] n = 2024 -> "2024" [] OTHER -> "0"

\* max(values, default=0)
MaxOr0(values) ==
    IF values = {} THEN 0 ELSE CHOOSE m \in values : \A x \in values : x <= m

\* tax_value: the "value" of the assessment found under str(latest_year)
RentcastTaxValue(tax_assessments) ==
    LET items == IF tax_assessments.t = "list" THEN tax_assessments.items ELSE <<>>
        latest_year == MaxOr0({IntOfText(items[i].year) :
                                  i \in {j \in 1..Len(items) : IsDigitText(items[j].year)}})
        found == {i \in 1..Len(items) : items[i].year = TextOfInt(latest_year)}
    IN  IF items = <<>> \/ latest_year <= 0 \/ found = {} THEN Whole(0)
        ELSE Get(items[CHOOSE i \in found : TRUE].value, Whole(0))

\* estimated_value_num = tax_value or valuation or 0
RentcastEstimatedValue(property_data) ==
    MoneyOr(Or(Or(RentcastTaxValue(property_data.taxAssessments),
                  Get(property_data.valuation, Whole(0))), Whole(0)),
            "Not available")

\* the order of the history keys as strings
KeyRank(key) ==
    CASE key = "2019-05-01" -> 1 [] key = "2020-01-15" -> 2 [] key = "2021-03-01" -> 3
      [] OTHER -> 0

\* datetime.fromisoformat(...).strftime("%B %d, %Y"); "" when fromisoformat raises
IsoLongForm(date_str) ==
    CASE date_str = "2020-01-15T00:00:00.000Z" -> "January 15, 2020"
      [] date_str = "2020-01-15" -> "January 15, 2020"
      [] date_str = "2019-05-01" -> "May 01, 2019"
      [] date_str = "2021-03-01" -> "March 01, 2021"
      [] OTHER -> ""

\* last_sold: date and price of the Sale event with the greatest key
RentcastLastSold(property_data) ==
    LET items == IF property_data.history.t = "list" THEN property_data.history.items ELSE <<>>
        sale_dates == {i \in 1..Len(items) : items[i].event = "Sale"}
        most_recent == CHOOSE i \in sale_dates :
                           \A j \in sale_dates : KeyRank(items[j].key) <= KeyRank(items[i].key)
        sale_info == items[most_recent]
        last_sold_date ==
            IF sale_dates = {} \/ sale_info.date.t = "missing" THEN "Unknown"
            ELSE IF IsoLongForm(sale_info.date.s) # "" THEN IsoLongForm(sale_info.date.s)
            ELSE sale_info.date.s
        last_sold_price ==
            IF sale_dates = {} THEN Whole(0) ELSE Get(sale_info.price, Whole(0))
    IN  <<last_sold_date, " for ">> \o MoneyOr(last_sold_price, "Unknown")

IsUrl(img) == img.t = "str" /\ img.s # ""

\* the photos with no limit on the images looked at
RentcastPhotosUncapped(images) ==
    LET kept == SelectSeq(IF images.t = "list" THEN images.items ELSE <<>>, IsUrl)
    IN  [i \in 1..Len(kept) |-> kept[i].s]

\* photos: the strings among images[:5]
RentcastPhotos(images) ==
    LET all == IF images.t = "list" THEN images.items ELSE <<>>
        kept == SelectSeq(SubSeq(all, 1, Min(MaxPhotos, Len(all))), IsUrl)
    IN  [i \in 1..Len(kept) |-> kept[i].s]

\* the PropertyDetailsOutput built from data[0]
RentcastRecord(property_data) ==
    LET bedrooms == Get(property_data.bedrooms, Whole(0))
        bathrooms == Get(property_data.bathrooms, Whole(0))
    IN  [address |-> "",
         bedrooms |-> IF bedrooms.t = "null" THEN 0 ELSE IntOf(bedrooms.v),
         bathrooms |-> IF bathrooms.t = "null" THEN 0 ELSE bathrooms.v,
         square_footage |-> 0,
         year_built |-> 0,
         lot_size |-> RentcastLotSize(property_data),
         property_type |-> Get(property_data.propertyType, Str("Unknown")).s,
         estimated_value |-> RentcastEstimatedValue(property_data),
         last_sold |-> RentcastLastSold(property_data),
         photos |-> RentcastPhotos(property_data.images),
         property_id |-> ""]

\* if not data or not isinstance(data, list) or len(data) == 0
NoRentcastProperty(body) == body.shape # "array" \/ body.items = <<>>

\* get_property_details_rentcast, from the response to the record or the ValueError
RentcastAdapterOutcome(addr, resp) ==
    IF resp.kind = "connection_error"
    THEN RaiseValueError(<<"Unexpected error when calling Rentcast API: ", "ConnectionError">>)
    ELSE IF RaisesForStatus(resp.status)
    THEN RaiseValueError(<<"HTTP error when calling Rentcast API: ">>
                         \o HttpErrorText(resp.status, RentcastUrl))
    ELSE IF resp.body.shape = "nonjson"
    THEN RaiseValueError(<<"Failed to parse Rentcast API response as JSON: ">> \o JsonErrorText)
    ELSE IF NoRentcastProperty(resp.body)
    THEN RaiseValueError(<<"Unexpected error when calling Rentcast API: ",
                           "No property found for address: ">> \o addr.s)
    ELSE Returned(RentcastRecord(resp.body.items[1]))

\* property_details_rentcast, from the response to the returned text
RentcastToolOutcome(addr, resp) ==
    IF resp.kind = "connection_error"
    THEN ReturnText(<<"Error retrieving property details: ", "ConnectionError">>)
    ELSE IF RaisesForStatus(resp.status)
    THEN ReturnText(<<"Error retrieving property details: HTTP error - ">>
                    \o HttpErrorText(resp.status, RentcastUrl))
    ELSE IF resp.body.shape = "nonjson"
    THEN ReturnText(<<"Error retrieving property details: Invalid JSON response - ">>
                    \o JsonErrorText)
    ELSE IF NoRentcastProperty(resp.body)
    THEN ReturnText(<<"No property found for address: ">> \o addr.s)
    ELSE Returned([text |-> <<"{">>, json |-> resp.body.items[1]])

(***************************************************************************)
(* The Realty provider: get_property_details_realty issues a search        *)
(* request and then a detail request; the tool property_details_realty     *)
(* issues one request through http.client and checks the status itself.    *)
(***************************************************************************)
RealtySearchUrl == "https://realty-in-us.p.rapidapi.com/properties/v2/list-for-sale"
RealtyDetailUrl == "https://realty-in-us.p.rapidapi.com/properties/v2/detail"
ZillowHost == "zillow-com1.p.rapidapi.com"

RealtyObject(properties) == [shape |-> "object", properties |-> properties]

RealtySearchBodies ==
    {NonJson, JsonList(<<>>)}
    \cup {RealtyObject(l) : l \in {NoList, List(<<>>),
                                   List(<<[property_id |-> Missing]>>),
                                   List(<<[property_id |-> Str("M123")]>>)}}

RealtySearchResponses ==
    {ConnectionFailed}
    \cup {Http(OkStatus, b) : b \in RealtySearchBodies}
    \cup {Http(st, b) : st \in OtherStatuses,
                        b \in {NonJson, RealtyObject(List(<<>>)),
                               RealtyObject(List(<<[property_id |-> Str("M123")]>>))}}

\* a photo of the detail response: a dict (with or without "href") or a string
Photo(href) == [t |-> "dict", v |-> 0, s |-> "", href |-> href]

PhotoLists ==
    {NoList}
    \cup {List([i \in 1..n |-> Photo(Str(ImageUrls[i]))]) : n \in 0..MaxImages}
    \cup {List([i \in 1..MaxImages |->
                   IF i = 1 THEN Photo(Missing) ELSE Str(ImageUrls[i])])}

\* properties[0] == {}
RealtyEmpty ==
    [beds |-> Missing, baths |-> Missing, lot_size |-> [size |-> Missing, units |-> Missing],
     prop_type |-> Missing, price |-> Missing, last_sold_date |-> Missing,
     last_sold_price |-> Missing, photos |-> NoList]

RealtyBase ==
    [beds |-> Whole(3), baths |-> Num(2500),
     lot_size |-> [size |-> Whole(5000), units |-> Missing],
     prop_type |-> Str("condo"), price |-> Whole(250000),
     last_sold_date |-> Str("2020-01-15"), last_sold_price |-> Whole(180000),
     photos |-> List(<<Photo(Str(ImageUrls[1]))>>)]

RealtyInfos ==
    {RealtyBase, RealtyEmpty}
    \cup {[RealtyBase EXCEPT !.lot_size = [size |-> v, units |-> u]] :
              v \in {Missing, Null, Whole(0), Whole(5000)}, u \in {Missing, Str("acres")}}
    \cup {[RealtyBase EXCEPT !.prop_type = t] :
              t \in {Missing, Str("single_family"), Str("Single Family"), Str("SFR"),
                     Str("CONDO"), Str("condo")}}
    \cup {[RealtyBase EXCEPT !.price = v] :
              v \in {Missing, Null, Whole(0), Whole(250000), Num(250000500),
                     Str("$250,000"), Str("N/A")}}
    \cup {[RealtyBase EXCEPT !.last_sold_date = d, !.last_sold_price = a] :
              d \in {Missing, Str("2020-01-15"), Str("01/15/2020")},
              a \in {Missing, Null, Whole(0), Whole(180000), Str("$180,000"), Str("N/A"),
                     Str("0")}}
    \cup {[RealtyBase EXCEPT !.photos = l] : l \in PhotoLists}

RealtyDetailBodies ==
    {NonJson, RealtyObject(NoList), RealtyObject(List(<<>>))}
    \cup {RealtyObject(List(<<info>>)) : info \in RealtyInfos}

RealtyDetailResponses ==
    {ConnectionFailed}
    \cup {Http(OkStatus, b) : b \in RealtyDetailBodies}
    \cup {Http(st, b) : st \in OtherStatuses, b \in {NonJson, RealtyObject(NoList)}}

\* the search parameters, from the adapter's own split of the address; names
\* is the set of parameters sent (address and postal_code only when not empty)
RealtySearchParams(addr) ==
    LET parts == Split(addr.s, COMMA)
        street_address == Strip(parts[1])
        city == IF Len(parts) > 1 THEN Strip(parts[2]) ELSE <<>>
        state_zip == IF Len(parts) > 2 THEN Strip(parts[3]) ELSE <<>>
        state_zip_parts == SplitWords(state_zip)
        state == IF Len(state_zip_parts) > 0 THEN state_zip_parts[1] ELSE <<>>
        zip_code == IF Len(state_zip_parts) > 1 THEN state_zip_parts[2] ELSE <<>>
    IN  [names |-> {"city", "state_code", "offset", "limit", "sort"}
                   \cup (IF street_address # <<>> THEN {"address"} ELSE {})
                   \cup (IF zip_code # <<>> THEN {"postal_code"} ELSE {}),
         city |-> city, state_code |-> state, offset |-> "0", limit |-> "10",
         sort |-> "relevance", address |-> street_address, postal_code |-> zip_code]

\* except Exception of get_property_details_realty
RealtyExcept(msg) ==
    RaiseValueError(<<"Unexpected error when calling RealtyInUS API: ">> \o msg)

\* what a response raises before its body is used: connection failure,
\* raise_for_status(), .json()
RealtyTransport(resp, url) ==
    IF resp.kind = "connection_error" THEN RealtyExcept(<<"ConnectionError">>)
    ELSE IF RaisesForStatus(resp.status)
    THEN RaiseValueError(<<"HTTP error when calling RealtyInUS API: ">>
                         \o HttpErrorText(resp.status, url))
    ELSE IF resp.body.shape = "nonjson"
    THEN RaiseValueError(<<"Failed to parse RealtyInUS API response as JSON: ">>
                         \o JsonErrorText)
    ELSE NoRecord

\* the search step: the property_id of the first result, or what is raised
RealtySearchOutcome(addr, resp) ==
    IF RealtyTransport(resp, RealtySearchUrl) # NoRecord
    THEN RealtyTransport(resp, RealtySearchUrl)
    ELSE IF resp.body.shape # "object"
    THEN RealtyExcept(<<"'list' object has no attribute 'get'">>)
    ELSE IF GetList(resp.body.properties, <<>>).items = <<>>
    THEN RealtyExcept(<<"No properties found for address: ">> \o addr.s)
    ELSE IF ~Truthy(Get(resp.body.properties.items[1].property_id, Null))
    THEN RealtyExcept(<<"No property ID found for address: ">> \o addr.s)
    ELSE Returned(resp.body.properties.items[1].property_id)

\* f"{lot_size_value} {lot_size_unit}"
RealtyLotSize(property_info) ==
    FormatValue(Get(property_info.lot_size.size, Whole(0)))
    \o <<" ">> \o FormatValue(Get(property_info.lot_size.units, Str("sq ft")))

\* "single" in property_type.lower(), on the types of the model
HasSingle(property_type) == property_type \in {"single_family", "Single Family"}

RealtyPropertyType(property_info) ==
    LET property_type == Get(property_info.prop_type, Str("Unknown")).s
    IN  IF HasSingle(property_type) THEN "Single Family Residence" ELSE property_type

\* float(''.join(filter(lambda x: x.isdigit() or x == '.', text))), 0 on ValueError
FloatOfDigits(text) ==
    CASE text = "$250,000" -> Whole(250000)
      [] text = "$180,000" -> Whole(180000)
      [] OTHER -> Whole(0)

\* a price after the string conversion
RealtyNumber(price) == IF price.t = "str" THEN FloatOfDigits(price.s) ELSE price

RealtyEstimatedValue(property_info) ==
    LET price == RealtyNumber(Get(property_info.price, Whole(0)))
    IN  IF Truthy(price) THEN <<"$">> \o CommaInt(IntOf(price.v)) ELSE <<"Not available">>

RealtyLastSold(property_info) ==
    LET last_sold_price == Get(property_info.last_sold_price, Whole(0))
    IN  FormatValue(Get(property_info.last_sold_date, Str("Unknown"))) \o <<" for ">>
        \o (IF Truthy(last_sold_price)
            THEN <<"$">> \o CommaInt(IntOf(RealtyNumber(last_sold_price).v))
            ELSE <<"Unknown">>)

HasHref(photo) == (photo.t = "dict" /\ photo.href.t # "missing") \/ photo.t = "str"

\* photos: the href or string of each of photo_data[:5]
RealtyPhotos(photo_data) ==
    LET all == GetList(photo_data, <<>>).items
        kept == SelectSeq(SubSeq(all, 1, Min(MaxPhotos, Len(all))), HasHref)
    IN  [i \in 1..Len(kept) |-> IF kept[i].t = "dict" THEN kept[i].href.s ELSE kept[i].s]

\* the PropertyDetailsOutput built from properties[0] of the detail response
RealtyRecord(property_info, property_id) ==
    [address |-> ", ,  ",
     bedrooms |-> IntOf(Get(property_info.beds, Whole(0)).v),
     bathrooms |-> Get(property_info.baths, Whole(0)).v,
     square_footage |-> 0,
     year_built |-> 0,
     lot_size |-> RealtyLotSize(property_info),
     property_type |-> RealtyPropertyType(property_info),
     estimated_value |-> RealtyEstimatedValue(property_info),
     last_sold |-> RealtyLastSold(property_info),
     photos |-> RealtyPhotos(property_info.photos),
     property_id |-> property_id.s]

\* the detail step: the record, or what is raised
RealtyDetailOutcome(resp, property_id) ==
    IF RealtyTransport(resp, RealtyDetailUrl) # NoRecord
    THEN RealtyTransport(resp, RealtyDetailUrl)
    ELSE LET properties == GetList(resp.body.properties,
                                   <<RealtyEmpty>>)
         IN  IF properties.items = <<>>
             THEN RealtyExcept(<<"list index out of range">>)
             ELSE Returned(RealtyRecord(properties.items[1], property_id))

ZillowProperties ==
    [bedrooms : {Whole(3), Missing}, bathrooms : {Num(2500)}, price : {Whole(250000), Missing}]

ZillowBodies ==
    {NonJson, JsonList(<<>>)}
    \cup {[shape |-> "object", data |-> d] : d \in ZillowProperties}

FewZillowBodies ==
    {NonJson, [shape |-> "object",
               data |-> [bedrooms |-> Whole(3), bathrooms |-> Num(2500), price |-> Missing]]}

ZillowResponses ==
    {ConnectionFailed, ProtocolFailed}
    \cup {Http(OkStatus, b) : b \in ZillowBodies}
    \cup {Http(st, b) : st \in OtherStatuses, b \in FewZillowBodies}

\* formatted_data of property_details_realty
ZillowFormatted(property_data) ==
    [description |-> [beds |-> Get(property_data.bedrooms, Whole(0)),
                      baths |-> Get(property_data.bathrooms, Whole(0))],
     price |-> [value |-> Get(property_data.price, Whole(0)),
                formatted |-> IF Truthy(Get(property_data.price, Null))
                              THEN <<"$">> \o CommaInt(IntOf(property_data.price.v))
                              ELSE <<"$", "0">>],
     photos |-> <<>>,
     property_id |-> ""]

\* property_details_realty, from the response to the returned text
ZillowToolOutcome(addr, resp) ==
    IF resp.kind = "http_exception"
    THEN ReturnText(<<"Error retrieving property details: HTTP error - ", "HTTPException">>)
    ELSE IF resp.kind = "connection_error"
    THEN ReturnText(<<"Error retrieving property details: ", "ConnectionError">>)
    ELSE IF resp.status # OkStatus
    THEN ReturnText(<<"Error retrieving property details: ", StatusText(resp.status), " - ",
                      resp.body.shape>>)
    ELSE IF resp.body.shape = "nonjson"
    THEN ReturnText(<<"Error retrieving property details: Invalid JSON response - ">>
                    \o JsonErrorText)
    ELSE IF resp.body.shape # "object"
    THEN ReturnText(<<"Error retrieving property details: ",
                      "'list' object has no attribute 'get'">>)
    ELSE Returned([text |-> <<"{">>, json |-> ZillowFormatted(resp.body.data)])

(***************************************************************************)
(* The scripts test_attom_property_details and                             *)
(* test_rentcast_property_details of test_api.py: each calls its adapter   *)
(* with a fixed address, prints the record's attributes and returns 0, or *)
(* returns 1 when anything raises.                                         *)
(***************************************************************************)
TestAddress == StrArg(<<WORD, COMMA, SP, WORD, COMMA, SP, ST>>)

\* the attributes printed before the last-sold line, in order
PrintedAttributes ==
    {"address", "property_type", "bedrooms", "bathrooms", "square_footage", "year_built",
     "lot_size", "estimated_value"}

\* result.<name> on a pydantic model: an AttributeError for a name that is no field
HasAttribute(record, name) == name \in DOMAIN record

\* the try block of the test: TRUE when no statement of it raises
TestBodyPasses(record) ==
    /\ \A name \in PrintedAttributes : HasAttribute(record, name)
    /\ HasAttribute(record, "last_sold_date")
    /\ (record.last_sold_date # "" => HasAttribute(record, "last_sold_price"))
    /\ HasAttribute(record, "property_id")

\* the return value of the test, from the outcome of the adapter call
TestReturn(adapter_outcome) ==
    IF adapter_outcome.kind = "return" /\ TestBodyPasses(adapter_outcome.value)
    THEN Returned([code |-> 0])
    ELSE Returned([code |-> 1])

(***************************************************************************)
(* The calls.  A call draws its arguments and the credential, checks the   *)
(* credential and sends its request; the response then decides the         *)
(* outcome; Return hands the outcome to the caller and nothing of the call *)
(* is kept.                                                                *)
(***************************************************************************)
NoResponse == [kind |-> "none", status |-> 0, body |-> <<>>]

Init ==
    /\ pc = "idle"
    /\ op = "none"
    /\ address = StrArg(<<>>)
    /\ hints = NoHints
    /\ api_key = NoKey
    /\ requests = <<>>
    /\ response = NoResponse
    /\ outcome = NoRecord
    /\ NoConversation

\* the call starts: arguments bound, credential read
Enter(name, a, h, k) ==
    /\ pc = "idle"
    /\ op' = name
    /\ address' = a
    /\ hints' = h
    /\ api_key' = k
    /\ response' = NoResponse
    /\ UNCHANGED agent_vars

Finish(result) ==
    /\ outcome' = result
    /\ pc' = "done"

Send(req) ==
    /\ requests' = Append(requests, req)
    /\ pc' = "waiting"
    /\ outcome' = NoRecord

Receive(name, resp) ==
    /\ pc = "waiting"
    /\ op = name
    /\ response' = resp
    /\ UNCHANGED <<op, address, hints, api_key, requests>>
    /\ UNCHANGED agent_vars

get_property_valuation_Call ==
    \E a \in SampleAddresses, h \in SampleHints, k \in Credentials :
        /\ Enter("get_property_valuation", a, h, k)
        /\ IF KeyNotConfigured(k)
           THEN /\ Finish(RaiseValueError(<<"API key not found in environment variables. Please add RENTCAST_API_KEY to your .env file.">>))
                /\ UNCHANGED requests
           ELSE Send(Request(AvmUrl, get_property_valuation_Params(a, h), k))

get_property_valuation_Response ==
    \E resp \in ValuationResponses :
        /\ Receive("get_property_valuation", resp)
        /\ Finish(ValuationAdapterOutcome(address, resp))

property_valuation_Call ==
    \E a \in SampleAddresses, h \in SampleHints, k \in Credentials :
        /\ Enter("property_valuation", a, h, k)
        /\ IF KeyNotConfigured(k)
           THEN /\ Finish(ValuationToolNoKey(k))
                /\ UNCHANGED requests
           ELSE Send(Request(AvmUrl, ValuationParams(a, h), k))

property_valuation_Response ==
    \E resp \in ValuationResponses :
        /\ Receive("property_valuation", resp)
        /\ Finish(ValuationToolOutcome(address, resp))

get_property_details_Call ==
    \E a \in SampleAddresses, k \in Credentials :
        /\ Enter("get_property_details", a, NoHints, k)
        /\ IF KeyNotConfigured(k)
           THEN /\ Finish(RaiseValueError(<<"API key not found in environment variables. Please add ATTOM_API_KEY to your .env file.">>))
                /\ UNCHANGED requests
           ELSE Send(Request(<<AttomHost, "/propertyapi/v1.0.0/property/basicprofile">>,
                             AttomParams(a), k))

get_property_details_Response ==
    \E resp \in AttomResponses :
        /\ Receive("get_property_details", resp)
        /\ Finish(AttomAdapterOutcome(address, resp))

property_details_Call ==
    \E a \in SampleAddresses, k \in Credentials :
        /\ Enter("property_details", a, NoHints, k)
        /\ IF KeyNotConfigured(k)
           THEN /\ Finish(ReturnText(<<"Error: API key not found in environment variables.">>))
                /\ UNCHANGED requests
           ELSE Send(Request(<<AttomHost>> \o AttomToolPath(a), <<>>, k))

property_details_Response ==
    \E resp \in AttomResponses :
        /\ Receive("property_details", resp)
        /\ Finish(AttomToolOutcome(address, resp))

get_property_details_rentcast_Call ==
    \E a \in SampleAddresses, k \in Credentials :
        /\ Enter("get_property_details_rentcast", a, NoHints, k)
        /\ IF KeyNotConfigured(k)
           THEN /\ Finish(RaiseValueError(<<"API key not found in environment variables. Please add RENTCAST_API_KEY to your .env file.">>))
                /\ UNCHANGED requests
           ELSE Send(Request(RentcastUrl, [address |-> a.s], k))

get_property_details_rentcast_Response ==
    \E resp \in RentcastResponses :
        /\ Receive("get_property_details_rentcast", resp)
        /\ Finish(RentcastAdapterOutcome(address, resp))

property_details_rentcast_Call ==
    \E a \in SampleAddresses, k \in Credentials :
        /\ Enter("property_details_rentcast", a, NoHints, k)
        /\ IF KeyNotConfigured(k)
           THEN /\ Finish(ReturnText(<<"Error: API key not found in environment variables. Please add RENTCAST_API_KEY to your .env file.">>))
                /\ UNCHANGED requests
           ELSE Send(Request(<<RentcastUrl, "?address=">> \o a.s, <<>>, k))

property_details_rentcast_Response ==
    \E resp \in RentcastResponses :
        /\ Receive("property_details_rentcast", resp)
        /\ Finish(RentcastToolOutcome(address, resp))

get_property_details_realty_Call ==
    \E a \in SampleAddresses, k \in Credentials :
        /\ Enter("get_property_details_realty", a, NoHints, k)
        /\ IF KeyNotConfigured(k)
           THEN /\ Finish(RaiseValueError(<<"API key not found in environment variables. Please add RAPIDAPI_KEY to your .env file.">>))
                /\ UNCHANGED requests
           ELSE Send(Request(RealtySearchUrl, RealtySearchParams(a), k))

\* the search response: the detail request follows when a property_id was found
get_property_details_realty_Search ==
    \E resp \in RealtySearchResponses :
        /\ pc = "waiting"
        /\ op = "get_property_details_realty"
        /\ Len(requests) = 1
        /\ response' = resp
        /\ LET r == RealtySearchOutcome(address, resp)
           IN  IF r.kind = "return"
               THEN /\ requests' = Append(requests,
                                          Request(RealtyDetailUrl, [property_id |-> r.value], api_key))
                    /\ UNCHANGED <<pc, outcome>>
               ELSE /\ Finish(r)
                    /\ UNCHANGED requests
        /\ UNCHANGED <<op, address, hints, api_key>>
        /\ UNCHANGED agent_vars

get_property_details_realty_Detail ==
    \E resp \in RealtyDetailResponses :
        /\ pc = "waiting"
        /\ op = "get_property_details_realty"
        /\ Len(requests) = 2
        /\ response' = resp
        /\ Finish(RealtyDetailOutcome(resp, requests[2].params.property_id))
        /\ UNCHANGED <<op, address, hints, api_key, requests>>
        /\ UNCHANGED agent_vars

property_details_realty_Call ==
    \E a \in SampleAddresses, k \in Credentials :
        /\ Enter("property_details_realty", a, NoHints, k)
        /\ IF KeyNotConfigured(k)
           THEN /\ Finish(ReturnText(<<"Error: API key not found in environment variables. Please add RAPIDAPI_KEY to your .env file.">>))
                /\ UNCHANGED requests
           ELSE Send(Request(<<ZillowHost, "/property?address=">> \o Quote(a.s), <<>>, k))

property_details_realty_Response ==
    \E resp \in ZillowResponses :
        /\ Receive("property_details_realty", resp)
        /\ Finish(ZillowToolOutcome(address, resp))

test_attom_property_details_Call ==
    \E k \in Credentials :
        /\ Enter("test_attom_property_details", TestAddress, NoHints, k)
        /\ IF KeyNotConfigured(k)
           THEN /\ Finish(TestReturn(RaiseValueError(<<"API key not found in environment variables. Please add ATTOM_API_KEY to your .env file.">>)))
                /\ UNCHANGED requests
           ELSE Send(Request(<<AttomHost, "/propertyapi/v1.0.0/property/basicprofile">>,
                             AttomParams(TestAddress), k))

test_attom_property_details_Response ==
    \E resp \in AttomResponses :
        /\ Receive("test_attom_property_details", resp)
        /\ Finish(TestReturn(AttomAdapterOutcome(address, resp)))

test_rentcast_property_details_Call ==
    \E k \in Credentials :
        /\ Enter("test_rentcast_property_details", TestAddress, NoHints, k)
        /\ IF KeyNotConfigured(k)
           THEN /\ Finish(TestReturn(RaiseValueError(<<"API key not found in environment variables. Please add RENTCAST_API_KEY to your .env file.">>)))
                /\ UNCHANGED requests
           ELSE Send(Request(RentcastUrl, [address |-> TestAddress.s], k))

test_rentcast_property_details_Response ==
    \E resp \in RentcastResponses :
        /\ Receive("test_rentcast_property_details", resp)
        /\ Finish(TestReturn(RentcastAdapterOutcome(address, resp)))

Return ==
    /\ pc = "done"
    /\ pc' = "idle"
    /\ op' = "none"
    /\ address' = StrArg(<<>>)
    /\ hints' = NoHints
    /\ api_key' = NoKey
    /\ requests' = <<>>
    /\ response' = NoResponse
    /\ outcome' = NoRecord
    /\ UNCHANGED agent_vars

Next ==
    \/ get_property_details_Call
    \/ get_property_details_Response
    \/ property_details_Call
    \/ property_details_Response
    \/ get_property_details_rentcast_Call
    \/ get_property_details_rentcast_Response
    \/ property_details_rentcast_Call
    \/ property_details_rentcast_Response
    \/ get_property_details_realty_Call
    \/ get_property_details_realty_Search
    \/ get_property_details_realty_Detail
    \/ property_details_realty_Call
    \/ property_details_realty_Response
    \/ get_property_valuation_Call
    \/ get_property_valuation_Response
    \/ property_valuation_Call
    \/ property_valuation_Response
    \/ Return

Spec == Init /\ [][Next]_vars

\* the runs of the two test scripts
TestNext ==
    \/ test_attom_property_details_Call
    \/ test_attom_property_details_Response
    \/ test_rentcast_property_details_Call
    \/ test_rentcast_property_details_Response
    \/ Return

TestSpec == Init /\ [][TestNext]_vars

(***************************************************************************)
(* The command-line loop main of app.py and the agent graph of             *)
(* create_agent: the entry point chatbot, the conditional edge of          *)
(* tools_condition from chatbot to tools or to the end, and the edge from  *)
(* tools back to chatbot.                                                  *)
(*                                                                         *)
(* pc is "prompt" at input(), "chatbot" or "tools" while graph.invoke is   *)
(* at that node, "returned" or "raised" when graph.invoke has returned or  *)
(* raised, "exited" after the break and "aborted" when an exception has    *)
(* left main.  op is "main" for the loop and "graph.invoke" for a run of   *)
(* the graph on its own.                                                   *)
(***************************************************************************)
MaxMessages == 4
MaxSteps == 3

Message(kind, role, content, tool_calls) ==
    [kind |-> kind, role |-> role, content |-> content, tool_calls |-> tool_calls]

HumanMessage(content) == Message("HumanMessage", "user", content, FALSE)
AIMessage(content, tool_calls) == Message("AIMessage", "assistant", content, tool_calls)
ToolMessage(content) == Message("ToolMessage", "tool", content, FALSE)
SystemMessage(content) == Message("SystemMessage", "system", content, FALSE)
SystemDict(content) == Message("dict", "system", content, FALSE)

SYSTEM_PROMPT == "You are an experienced, friendly AI Real Estate Agent assistant"

UserInputs == {"hello", "exit", "QUIT", "Bye", " exit"}

\* user_input.lower()
Lower(text) ==
    CASE text = "QUIT" -> "quit" [] text = "Bye" -> "bye" [] OTHER -> text

\* the message lists a run of the graph on its own starts from
IncomingMessages ==
    {<<HumanMessage("hello")>>,
     <<SystemMessage("custom"), HumanMessage("hello")>>,
     <<HumanMessage("hello"), SystemDict("custom")>>,
     <<HumanMessage("hello"), AIMessage("answer", FALSE), HumanMessage("hello")>>}

\* the responses of the model: a final answer or a request for a tool call
ModelResponses == {AIMessage("answer", FALSE), AIMessage("", TRUE)}

has_system_message(msgs) ==
    \E i \in 1..Len(msgs) :
        (msgs[i].kind = "dict" /\ msgs[i].role = "system") \/ msgs[i].kind = "SystemMessage"

\* the list passed to the model when the prompt is prepended whatever the list holds
ProcessedMessagesAlways(msgs) == <<SystemDict(SYSTEM_PROMPT)>> \o msgs

\* the list the chatbot node passes to the model
ProcessedMessages(msgs) ==
    IF ~has_system_message(msgs) THEN <<SystemDict(SYSTEM_PROMPT)>> \o msgs ELSE msgs

\* tools_condition: "tools" when the last message requests a tool call
tools_condition(msgs) ==
    IF msgs # <<>> /\ msgs[Len(msgs)].tool_calls THEN "tools" ELSE "returned"

\* the route when the tools node has no edge back to the chatbot node
ToolsThenEnd == "returned"

\* add_edge("tools", "chatbot")
AfterTools == "chatbot"

call_vars == <<address, hints, api_key, requests, response, outcome>>

AgentInit ==
    /\ address = StrArg(<<>>)
    /\ hints = NoHints
    /\ api_key = NoKey
    /\ requests = <<>>
    /\ response = NoResponse
    /\ outcome = NoRecord
    /\ user_input = ""
    /\ conversation_state = <<>>
    /\ processed_messages = <<>>
    /\ trace = <<>>
    /\ \/ op = "main" /\ pc = "prompt" /\ messages = <<>>
       \/ op = "graph.invoke" /\ pc = "chatbot" /\ messages \in IncomingMessages

\* input() returns a line: the break, or the user message is appended and
\* graph.invoke(conversation_state) starts
main_Input ==
    \E line \in UserInputs :
        /\ op = "main"
        /\ pc = "prompt"
        /\ user_input' = line
        /\ IF Lower(line) \in {"exit", "quit", "bye"}
           THEN /\ pc' = "exited"
                /\ UNCHANGED <<conversation_state, messages, trace>>
           ELSE /\ Len(conversation_state) < MaxMessages
                /\ conversation_state' = Append(conversation_state, HumanMessage(line))
                /\ messages' = conversation_state'
                /\ trace' = <<>>
                /\ pc' = "chatbot"
        /\ UNCHANGED <<op, processed_messages>>
        /\ UNCHANGED call_vars

\* input() raises (end of input, interrupt): outside the try block
main_InputRaises ==
    /\ op = "main"
    /\ pc = "prompt"
    /\ pc' = "aborted"
    /\ UNCHANGED <<op, user_input, conversation_state, messages, processed_messages, trace>>
    /\ UNCHANGED call_vars

\* the chatbot node: the model answers and its response is added to the state
chatbot ==
    \E model_response \in ModelResponses :
        /\ pc = "chatbot"
        /\ model_response.tool_calls => Len(trace) + 2 <= MaxSteps
        /\ processed_messages' = ProcessedMessages(messages)
        /\ messages' = Append(messages, model_response)
        /\ trace' = Append(trace, "chatbot")
        /\ pc' = tools_condition(messages')
        /\ UNCHANGED <<op, user_input, conversation_state>>
        /\ UNCHANGED call_vars

\* the chatbot node when llm_with_tools.invoke raises
chatbot_Raises ==
    /\ pc = "chatbot"
    /\ processed_messages' = ProcessedMessages(messages)
    /\ trace' = Append(trace, "chatbot")
    /\ pc' = "raised"
    /\ UNCHANGED <<op, user_input, conversation_state, messages>>
    /\ UNCHANGED call_vars

\* the tools node: the tool's result is added to the state
tool_node ==
    /\ pc = "tools"
    /\ messages' = Append(messages, ToolMessage("result"))
    /\ trace' = Append(trace, "tools")
    /\ pc' = AfterTools
    /\ UNCHANGED <<op, user_input, conversation_state, processed_messages>>
    /\ UNCHANGED call_vars

\* conversation_state = result
main_Result ==
    /\ op = "main"
    /\ pc = "returned"
    /\ conversation_state' = messages
    /\ pc' = "prompt"
    /\ UNCHANGED <<op, user_input, messages, processed_messages, trace>>
    /\ UNCHANGED call_vars

\* the loop without the try block: the exception leaves main
main_ExceptMissing ==
    /\ op = "main"
    /\ pc = "raised"
    /\ pc' = "aborted"
    /\ UNCHANGED <<op, user_input, conversation_state, messages, processed_messages, trace>>
    /\ UNCHANGED call_vars

\* except Exception: the error is printed and the loop goes on
main_Except ==
    /\ op = "main"
    /\ pc = "raised"
    /\ pc' = "prompt"
    /\ UNCHANGED <<op, user_input, conversation_state, messages, processed_messages, trace>>
    /\ UNCHANGED call_vars

AgentNext ==
    \/ main_Input
    \/ main_InputRaises
    \/ chatbot
    \/ chatbot_Raises
    \/ tool_node
    \/ main_Result
    \/ main_Except

AgentSpec == AgentInit /\ [][AgentNext]_vars

(***************************************************************************)
(* Properties of parse_address.                                            *)
(***************************************************************************)
Parsed == pc = "done" /\ op = "parse_address"
ParsedStr == Parsed /\ address.t = "str"
Parts == Split(address.s, COMMA)
AddressFields == {"street_address", "city", "state", "zip_code"}
IsText(s) == DOMAIN s = 1..Len(s) /\ \A i \in 1..Len(s) : s[i] \in Tokens

\* a 5-digit zip code standing as a word of its own somewhere in the text
ContainsZip(s) == \E i \in 1..Len(s) : s[i] = ZIP /\ IsWordAt(s, i)

\* C7 as stated: every address that holds a 5-digit zip code anywhere gets
\* that zip code in zip_code, wherever the commas are.
C7_ZipAnywhere ==
    (ParsedStr /\ ContainsZip(address.s)) => outcome.value.zip_code = <<ZIP>>

\* "street, city, ST zip": three or more components, a city, and a third
\* component of one word followed by the zip code
DocumentedForm ==
    /\ Len(Parts) >= 3
    /\ Strip(Parts[2]) # <<>>
    /\ Len(SplitWords(Parts[3])) = 2
    /\ SplitWords(Parts[3])[2] = <<ZIP>>

\* C7 (amended): an address of the documented form "street, city, ST zip"
\* gets its zip code in zip_code.
C7_ZipOfDocumentedForm ==
    (ParsedStr /\ DocumentedForm) => outcome.value.zip_code = <<ZIP>>

C7_Witness ==
    /\ ParsedStr /\ DocumentedForm
    /\ outcome.value.street_address = <<WORD>>
    /\ outcome.value.city = <<WORD>>
    /\ outcome.value.state = <<ST>>
    /\ outcome.value.zip_code = <<ZIP>>

\* C8 as stated: an address with no comma is returned whole (surrounding
\* whitespace aside) as street_address; city, state and zip_code stay empty.
C8_NoCommaWholeStreet ==
    (ParsedStr /\ ~Contains(address.s, COMMA)) =>
        outcome.value = [street_address |-> Strip(address.s), city |-> <<>>,
                         state |-> <<>>, zip_code |-> <<>>]

\* three or more words, the second-to-last of at most two characters and
\* with no lower-case letter
EndsInStateZip(s) ==
    LET words == SplitWords(s)
        n == Len(words)
    IN  /\ Contains(s, SP)
        /\ n >= 3
        /\ UpperSame(words[n-1])
        /\ StrLen(words[n-1]) <= 2

\* C8 (amended): an address with no comma is returned trimmed as
\* street_address with city, state and zip_code empty, unless it ends in a
\* state-like word and one more word; then these two are state and zip_code,
\* the words before them, joined by single spaces, are street_address, and
\* city is empty.
C8_NoCommaParse ==
    (ParsedStr /\ ~Contains(address.s, COMMA)) =>
        LET words == SplitWords(address.s)
            n == Len(words)
        IN  outcome.value =
                IF EndsInStateZip(address.s)
                THEN [street_address |-> Join(SubSeq(words, 1, n-2), SP),
                      city |-> <<>>, state |-> words[n-1], zip_code |-> words[n]]
                ELSE [street_address |-> Strip(address.s), city |-> <<>>,
                      state |-> <<>>, zip_code |-> <<>>]

C8_Witness ==
    /\ ParsedStr /\ ~Contains(address.s, COMMA)
    /\ EndsInStateZip(address.s)
    /\ outcome.value.state = <<ST>>
    /\ outcome.value.zip_code = <<ZIP>>
    /\ outcome.value.street_address = <<WORD, SP, WORD>>

\* C9 as stated: component 0 is the street; with three or more components
\* component 1 is the city; with exactly two, the city is the text of the
\* last component before its state/zip token, not the whole component.
C9_CommaComponents ==
    ParsedStr =>
        /\ outcome.value.street_address = Strip(Parts[1])
        /\ Len(Parts) >= 3 => outcome.value.city = Strip(Parts[2])
        /\ (Len(Parts) = 2 /\ StateZipAt(Parts[2]) > 0) =>
               outcome.value.city = Strip(SubSeq(Parts[2], 1, StateZipAt(Parts[2]) - 1))

\* C9 (amended): with two or more components and a non-blank component 1,
\* component 0 (trimmed) is the street and component 1 (trimmed) is the
\* city; with exactly two components the city is the whole last component,
\* its state and zip text included, and state and zip_code stay empty.
C9_CommaComponentsWhole ==
    (ParsedStr /\ Len(Parts) >= 2 /\ Strip(Parts[2]) # <<>>) =>
        /\ outcome.value.street_address = Strip(Parts[1])
        /\ outcome.value.city = Strip(Parts[2])
        /\ Len(Parts) = 2 =>
               (outcome.value.state = <<>> /\ outcome.value.zip_code = <<>>)

C9_Witness ==
    /\ ParsedStr /\ Len(Parts) = 2
    /\ StateZipAt(Parts[2]) > 1
    /\ Strip(SubSeq(Parts[2], 1, StateZipAt(Parts[2]) - 1)) # <<>>
    /\ outcome.value.city = Strip(Parts[2])
    /\ outcome.value.street_address = <<WORD>>

\* C10: parse_address never raises; it returns the four fields
\* street_address, city, state and zip_code, each a (possibly empty) text.
C10_NeverRaises ==
    Parsed =>
        /\ outcome.kind = "return"
        /\ DOMAIN outcome.value = AddressFields
        /\ \A f \in AddressFields : IsText(outcome.value[f])

C10_Witness ==
    /\ ParsedStr
    /\ ~Contains(address.s, ZIP) /\ ~Contains(address.s, ST)
    /\ outcome.kind = "return"
    /\ outcome.value.street_address = <<WORD, SP, WORD>>
    /\ outcome.value.city = <<WORD>>
    /\ outcome.value.state = <<>> /\ outcome.value.zip_code = <<>>

(***************************************************************************)
(* Properties of the provider calls.                                       *)
(*                                                                         *)
(* A finished call is classified by the first piece of its message, the    *)
(* literal text the code puts in front of the details.                     *)
(***************************************************************************)
Done(name) == pc = "done" /\ op = name

OutcomeText ==
    IF outcome.kind = "raise" THEN outcome.value.msg
    ELSE IF outcome.kind = "return" /\ "text" \in DOMAIN outcome.value THEN outcome.value.text
    ELSE <<>>

Prefix == IF OutcomeText = <<>> THEN "" ELSE OutcomeText[1]

MissingCredentialPrefixes ==
    {"API key not found in environment variables. Please add ATTOM_API_KEY to your .env file.",
     "API key not found in environment variables. Please add RENTCAST_API_KEY to your .env file.",
     "API key not found in environment variables. Please add RAPIDAPI_KEY to your .env file.",
     "Error: API key not found in environment variables.",
     "Error: API key not found in environment variables. Please add RENTCAST_API_KEY to your .env file.",
     "Error: API key not found in environment variables. Please add RAPIDAPI_KEY to your .env file."}

NotFoundPrefixes == {"No property found for address: ", "No properties found for address: "}

HttpOrJsonPrefixes ==
    {"HTTP error when calling ATTOM API: ", "Failed to parse ATTOM API response as JSON: ",
     "HTTP error when calling Rentcast API: ", "Failed to parse Rentcast API response as JSON: ",
     "HTTP error when calling RealtyInUS API: ",
     "Failed to parse RealtyInUS API response as JSON: ",
     "HTTP error when calling Rentcast API for valuation: ",
     "Failed to parse Rentcast API valuation response as JSON: ",
     "Error retrieving property details: HTTP error - ",
     "Error retrieving property details: Invalid JSON response - ",
     "Error retrieving property valuation: HTTP error - ",
     "Error retrieving property valuation: Invalid JSON response - "}

GenericPrefixes ==
    {"Unexpected error when calling ATTOM API: ", "Unexpected error when calling Rentcast API: ",
     "Unexpected error when calling RealtyInUS API: ",
     "Unexpected error when calling Rentcast API for valuation: ",
     "Error retrieving property details: ", "Error retrieving property valuation: "}

IsMissingCredential == Prefix \in MissingCredentialPrefixes
IsNotFound == Prefix \in NotFoundPrefixes
IsGenericError == Prefix \in GenericPrefixes
\* a failure that is reported as a failure: the HTTP / JSON outcome or the generic one
IsUpstreamError == Prefix \in HttpOrJsonPrefixes \cup GenericPrefixes
\* a property record, the provider's JSON, or a valuation report
IsResult == outcome.kind = "return" /\ ~IsMissingCredential /\ ~IsNotFound /\ ~IsUpstreamError

IsDigit(c) == \E d \in 0..9 : DigitChar(d) = c
DigitValue(c) == CHOOSE d \in 0..9 : DigitChar(d) = c

RECURSIVE DigitsValue(_)
DigitsValue(ds) ==
    IF ds = <<>> THEN 0
    ELSE DigitsValue(SubSeq(ds, 1, Len(ds) - 1)) * 10 + DigitValue(ds[Len(ds)])

\* the number a rendered figure denotes, in thousandths: "$221,000" denotes
\* 221000000, "0.30 miles" denotes 300
Magnitude(chars) ==
    LET point == IF \E i \in 1..Len(chars) : chars[i] = "."
                 THEN CHOOSE i \in 1..Len(chars) : chars[i] = "."
                 ELSE Len(chars) + 1
        whole == SelectSeq(SubSeq(chars, 1, point - 1), IsDigit)
        fraction == SelectSeq(SubSeq(chars, point + 1, Len(chars)), IsDigit)
    IN  DigitsValue(whole) * Scale + DigitsValue(SubSeq(fraction \o <<"0", "0", "0">>, 1, 3))

\* property_valuation has returned its report for a JSON object
ReportReturned ==
    /\ Done("property_valuation")
    /\ outcome.kind = "return"
    /\ "estimated_value" \in DOMAIN outcome.value

Listed == 1..Len(outcome.value.comps)
ReceivedComp(i) == response.body.comparables.items[i]

\* C1 (as claimed): every figure of the valuation report (estimated value,
\* range low and high, each listed comparable's price, days on market and
\* distance) denotes exactly the magnitude received from the provider.
C1_ExactMagnitudes ==
    ReportReturned =>
        /\ IsNumber(response.body.price) =>
               Magnitude(outcome.value.estimated_value) = response.body.price.v
        /\ IsNumber(response.body.range[1]) =>
               Magnitude(outcome.value.range_low) = response.body.range[1].v
        /\ IsNumber(response.body.range[2]) =>
               Magnitude(outcome.value.range_high) = response.body.range[2].v
        /\ \A i \in Listed :
               /\ Magnitude(outcome.value.comps[i].price) = ReceivedComp(i).price.v
               /\ Magnitude(outcome.value.comps[i].days_on_market) = ReceivedComp(i).daysOnMarket.v
               /\ Magnitude(outcome.value.comps[i].distance) = ReceivedComp(i).distance.v

\* C1 (what the code does): the estimated value, the range bounds and the
\* comparable prices are shown truncated to whole dollars, the distance is
\* shown rounded to the nearest hundredth, days on market are shown as
\* received; an estimated value of 221000 is rendered "$221,000".
C1_TruncatedAndRounded ==
    ReportReturned =>
        /\ IsNumber(response.body.price) =>
               Magnitude(outcome.value.estimated_value)
                   = (response.body.price.v \div Scale) * Scale
        /\ response.body.price = Whole(221000) =>
               outcome.value.estimated_value = <<"$", "2", "2", "1", ",", "0", "0", "0">>
        /\ IsNumber(response.body.range[1]) =>
               Magnitude(outcome.value.range_low) = (response.body.range[1].v \div Scale) * Scale
        /\ IsNumber(response.body.range[2]) =>
               Magnitude(outcome.value.range_high) = (response.body.range[2].v \div Scale) * Scale
        /\ \A i \in Listed :
               /\ Magnitude(outcome.value.comps[i].price)
                      = (ReceivedComp(i).price.v \div Scale) * Scale
               /\ Magnitude(outcome.value.comps[i].days_on_market) = ReceivedComp(i).daysOnMarket.v
               /\ Magnitude(outcome.value.comps[i].distance)
                      = ((ReceivedComp(i).distance.v + 5) \div 10) * 10

\* C1 (witness): a report whose estimated value lost its cents and whose
\* first comparable's distance 0.299 is shown as "0.30 miles".
C1_Witness ==
    /\ ReportReturned
    /\ response.body.price = Num(221000750)
    /\ outcome.value.estimated_value = <<"$", "2", "2", "1", ",", "0", "0", "0">>
    /\ Len(outcome.value.comps) > 0
    /\ ReceivedComp(1).distance = Num(299)
    /\ outcome.value.comps[1].distance = <<"0", ".", "3", "0", " ", "m", "i", "l", "e", "s">>

\* a valuation response the tool reads: no HTTP error status, a JSON object,
\* range bounds that are numbers or absent
ReadableValuation ==
    /\ response.kind = "http"
    /\ ~RaisesForStatus(response.status)
    /\ response.body.shape = "object"
    /\ IsNumber(Get(response.body.range[1], Whole(0)))
    /\ IsNumber(Get(response.body.range[2], Whole(0)))

\* C2: when such a response has an empty comparables list, property_valuation
\* returns the report, with the average comparable price, the average price
\* per square foot and the average days on market all rendered as 0; the
\* outcome is no division error.
C2_EmptyComparablesAveragesZero ==
    (Done("property_valuation") /\ ReadableValuation
        /\ response.body.comparables = List(<<>>)) =>
        /\ ReportReturned
        /\ outcome.value.avg_price = <<"$", "0">>
        /\ outcome.value.avg_price_per_sqft = <<"$", "0">>
        /\ outcome.value.avg_days = <<"0", " ", "d", "a", "y", "s">>
        /\ outcome.value.comps = <<>>
        /\ outcome.value.count = <<"0">>

\* C2 (witness): a report returned for an empty comparables list.
C2_Witness ==
    /\ Done("property_valuation")
    /\ ReadableValuation
    /\ response.body.comparables = List(<<>>)
    /\ ReportReturned
    /\ outcome.value.avg_price_per_sqft = <<"$", "0">>

\* the provider answered 200 with a payload that says: no such property
ZeroMatches ==
    /\ pc = "done"
    /\ response.kind = "http"
    /\ response.status = OkStatus
    /\ \/ /\ op = "get_property_details"
          /\ response.body.shape = "object"
          /\ \/ response.body.property = List(<<>>)
             \/ response.body.status_code = Whole(400)
       \/ /\ op = "get_property_details_rentcast"
          /\ response.body = JsonList(<<>>)
       \/ /\ op = "get_property_details_realty"
          /\ Len(requests) = 1
          /\ response.body.shape = "object"
          /\ response.body.properties = List(<<>>)

\* C3 (as claimed): an adapter that is told of zero matching properties ends
\* in the not-found outcome, never in the generic error outcome.
C3_NotFoundOutcome == ZeroMatches => (IsNotFound /\ ~IsGenericError)

\* C3 (what the code does): the not-found ValueError is raised inside the
\* try block and caught by the adapter's own except Exception, so the call
\* ends in the "Unexpected error" ValueError, as it does for any other
\* unexpected failure.
C3_NotFoundIsRewrapped ==
    ZeroMatches =>
        /\ outcome.kind = "raise"
        /\ outcome.value.exc = "ValueError"
        /\ IsGenericError
        /\ Len(OutcomeText) > 1
        /\ OutcomeText[2] \in NotFoundPrefixes \cup {"API error: "}

\* C3 (witness): the Rentcast adapter answered with an empty array.
C3_Witness ==
    /\ ZeroMatches
    /\ op = "get_property_details_rentcast"
    /\ Prefix = "Unexpected error when calling Rentcast API: "

\* C4 (as claimed): a call whose credential is not configured ends in the
\* missing-credential outcome and has issued no request.
C4_MissingCredentialOutcome ==
    (pc = "done" /\ KeyNotConfigured(api_key)) => (IsMissingCredential /\ requests = <<>>)

\* C4 (what the code does): no request is ever issued without a credential,
\* and the call ends in the missing-credential outcome, except that
\* property_valuation with the variable unset raises TypeError from the
\* debug line that slices the key before the check.
C4_CheckedBeforeRequest ==
    /\ (pc # "idle" /\ KeyNotConfigured(api_key)) => (pc = "done" /\ requests = <<>>)
    /\ (pc = "done" /\ KeyNotConfigured(api_key)) =>
           IF op = "property_valuation" /\ api_key = NoKey
           THEN outcome.kind = "raise" /\ outcome.value.exc = "TypeError"
           ELSE IsMissingCredential

\* C4 (witness): property_valuation called with the variable unset.
C4_Witness ==
    /\ Done("property_valuation")
    /\ api_key = NoKey
    /\ outcome.kind = "raise"
    /\ requests = <<>>

\* the response is a non-2xx HTTP response or its body is no JSON
BadResponse ==
    /\ pc = "done"
    /\ response.kind = "http"
    /\ \/ response.status < 200
       \/ response.status > 299
       \/ response.body.shape = "nonjson"

\* C5 (as claimed): a call that received a non-2xx response or a non-JSON
\* body ends in the upstream-error outcome, never in a record or a
\* not-found result.
C5_UpstreamOutcome == BadResponse => (IsUpstreamError /\ ~IsResult /\ ~IsNotFound)

\* C5 (what the code does): a non-JSON body always ends in an error outcome;
\* a 4xx/5xx status does so in the calls made through requests and any
\* status other than 200 does so in property_details_realty; the two ATTOM
\* calls never look at the HTTP status.
C5_UpstreamWhereChecked ==
    BadResponse =>
        /\ response.body.shape = "nonjson" => IsUpstreamError
        /\ (RaisesForStatus(response.status)
               /\ op \notin {"get_property_details", "property_details", "property_details_realty"})
           => Prefix \in HttpOrJsonPrefixes
        /\ op = "property_details_realty" => IsUpstreamError

\* C5 (witness): property_details answers "No property found" for a 404
\* whose JSON body has no "property" member, and get_property_details
\* returns a record for a 404 that carries one.
C5_Witness ==
    /\ BadResponse
    /\ response.status = 404
    /\ \/ op = "property_details" /\ IsNotFound
       \/ op = "get_property_details" /\ outcome.kind = "return"

\* get_property_details has returned a record
AttomRecordReturned ==
    /\ Done("get_property_details")
    /\ outcome.kind = "return"

ReceivedRooms == response.body.property.items[1].rooms

\* 0 for a count that is missing or null
CountOf(x) == IF x.t = "num" THEN x.v ELSE 0

\* C6 (as claimed): bathrooms is bathstotal when the field is present, and
\* bathsfull + 0.5 * bathshalf otherwise.
C6_TotalWhenPresent ==
    AttomRecordReturned =>
        outcome.value.bathrooms =
            IF ReceivedRooms.bathstotal.t # "missing"
            THEN CountOf(ReceivedRooms.bathstotal)
            ELSE CountOf(ReceivedRooms.bathsfull) + CountOf(ReceivedRooms.bathshalf) \div 2

\* C6 (amended): bathrooms is bathstotal when the field is present and not
\* zero (not null either), and bathsfull + 0.5 * bathshalf otherwise, a
\* missing or null count being 0.
C6_TotalWhenNonZero ==
    AttomRecordReturned =>
        outcome.value.bathrooms =
            IF CountOf(ReceivedRooms.bathstotal) # 0
            THEN ReceivedRooms.bathstotal.v
            ELSE CountOf(ReceivedRooms.bathsfull) + CountOf(ReceivedRooms.bathshalf) \div 2

\* C6 (witness): no bathstotal, 2 full and 1 half baths give 2.5; and a
\* bathstotal of 0 with the same counts gives 2.5 as well.
C6_Witness ==
    /\ AttomRecordReturned
    /\ ReceivedRooms.bathstotal \in {Missing, Whole(0)}
    /\ ReceivedRooms.bathsfull = Whole(2)
    /\ ReceivedRooms.bathshalf = Whole(1)
    /\ outcome.value.bathrooms = 2500

(***************************************************************************)
(* Properties of the valuation figures, comparables and request.           *)
(***************************************************************************)
ReceivedComps == response.body.comparables.items

\* the area a comparable counts with: its squareFootage, 1 when it has none
AreaOf(comp) == IF comp.squareFootage.t = "missing" THEN 1 ELSE comp.squareFootage.v \div Scale

RECURSIVE AreaProduct(_)
AreaProduct(comps) ==
    IF comps = <<>> THEN 1 ELSE AreaOf(Head(comps)) * AreaProduct(Tail(comps))

\* sum of price_i / area_i over a common denominator AreaProduct(all):
\* price_i times the areas of the others
RECURSIVE CrossSum(_, _)
CrossSum(comps, all) ==
    IF comps = <<>> THEN 0
    ELSE Head(comps).price.v * (AreaProduct(all) \div AreaOf(Head(comps)))
         + CrossSum(Tail(comps), all)

\* whole dollars of (sum of price_i / area_i) / n
AverageOfRatios(comps) ==
    (CrossSum(comps, comps) \div (AreaProduct(comps) * Len(comps))) \div Scale

RECURSIVE PriceSum(_)
PriceSum(comps) == IF comps = <<>> THEN 0 ELSE Head(comps).price.v + PriceSum(Tail(comps))

RECURSIVE AreaSum(_)
AreaSum(comps) == IF comps = <<>> THEN 0 ELSE AreaOf(Head(comps)) + AreaSum(Tail(comps))

NoZeroArea(comps) == \A i \in 1..Len(comps) : AreaOf(comps[i]) # 0

\* get_property_valuation has returned its record
ValuationRecordReturned ==
    /\ Done("get_property_valuation")
    /\ outcome.kind = "return"

C13_ComparablesInProviderOrder ==
    ValuationRecordReturned =>
        /\ Len(outcome.value.comparables) = Len(ReceivedComps)
        /\ \A i \in 1..Len(ReceivedComps) :
               /\ outcome.value.comparables[i].price = ReceivedComps[i].price.v
               /\ outcome.value.comparables[i].distance = ReceivedComps[i].distance.v
               /\ outcome.value.comparables[i].days_on_market = ReceivedComps[i].daysOnMarket.v
               /\ outcome.value.comparables[i].square_footage
                      = (IF ReceivedComps[i].squareFootage.t = "missing" THEN 0
                         ELSE ReceivedComps[i].squareFootage.v)

\* C13 (witness): a record of two comparables that the provider sent with
\* the dearer one first and the nearer one last.
C13_Witness ==
    /\ ValuationRecordReturned
    /\ Len(ReceivedComps) = 2
    /\ ReceivedComps[1].price.v > ReceivedComps[2].price.v
    /\ ReceivedComps[1].distance.v > ReceivedComps[2].distance.v
    /\ outcome.value.comparables[1].price > outcome.value.comparables[2].price

\* a valuation call has sent its request
ValuationRequestSent ==
    /\ op \in {"get_property_valuation", "property_valuation"}
    /\ requests # <<>>

SentParams == requests[1].params

Supplied(hint) == hint.t # "null"

\* C14 (as claimed): the valuation request holds the address, compCount 20
\* and, for each hint, its parameter with the given value if and only if the
\* hint was supplied.
C14_HintsForwardedIffSupplied ==
    ValuationRequestSent =>
        /\ SentParams.address = address.s
        /\ SentParams.compCount = Whole(20)
        /\ SentParams.propertyType
               = (IF Supplied(hints.property_type) THEN hints.property_type ELSE Missing)
        /\ SentParams.bedrooms = (IF Supplied(hints.bedrooms) THEN hints.bedrooms ELSE Missing)
        /\ SentParams.bathrooms = (IF Supplied(hints.bathrooms) THEN hints.bathrooms ELSE Missing)
        /\ SentParams.squareFootage
               = (IF Supplied(hints.square_footage) THEN hints.square_footage ELSE Missing)

\* C14 (amended): as above for bedrooms, bathrooms and square_footage (a
\* supplied 0 is forwarded); propertyType is sent if and only if the
\* property_type hint is a non-empty string.
C14_HintsForwarded ==
    ValuationRequestSent =>
        /\ Len(requests) = 1
        /\ requests[1].url = AvmUrl
        /\ SentParams.address = address.s
        /\ SentParams.compCount = Whole(20)
        /\ SentParams.propertyType
               = (IF hints.property_type.t = "str" /\ hints.property_type.s # ""
                  THEN hints.property_type ELSE Missing)
        /\ SentParams.bedrooms = (IF Supplied(hints.bedrooms) THEN hints.bedrooms ELSE Missing)
        /\ SentParams.bathrooms = (IF Supplied(hints.bathrooms) THEN hints.bathrooms ELSE Missing)
        /\ SentParams.squareFootage
               = (IF Supplied(hints.square_footage) THEN hints.square_footage ELSE Missing)

\* C14 (witness): a request for hints that are all falsy: the zeros are
\* sent, the empty property type is not.
C14_Witness ==
    /\ ValuationRequestSent
    /\ hints = ZeroHints
    /\ SentParams.bedrooms = Whole(0)
    /\ SentParams.squareFootage = Whole(0)
    /\ SentParams.propertyType = Missing

(***************************************************************************)
(* Properties of the requests and of the records the adapters return.      *)
(***************************************************************************)
\* the call has reached the network: a response or a failure came back
ReachedNetwork == pc = "done" /\ response.kind # "none"

\* C15 (as claimed): a call that reaches the network issues exactly one
\* request, never a second one.
C15_ExactlyOneRequest ==
    /\ Len(requests) <= 1
    /\ ReachedNetwork => Len(requests) = 1

\* C15 (what the code does): every call issues one request, except
\* get_property_details_realty, which after a search that yields a
\* property_id issues a second request, to the detail endpoint, for that id;
\* no request is ever repeated.
C15_OneRequestExceptRealty ==
    /\ op # "get_property_details_realty" =>
           /\ Len(requests) <= 1
           /\ ReachedNetwork => Len(requests) = 1
    /\ op = "get_property_details_realty" =>
           /\ Len(requests) <= 2
           /\ ReachedNetwork => Len(requests) >= 1
           /\ Len(requests) = 2 =>
                  /\ requests[1].url = RealtySearchUrl
                  /\ requests[2].url = RealtyDetailUrl
                  /\ requests[2].params.property_id = Str("M123")

\* C15 (witness): get_property_details_realty finished after two requests.
C15_Witness ==
    /\ Done("get_property_details_realty")
    /\ Len(requests) = 2
    /\ outcome.kind = "return"


\* an adapter has returned a record
DetailAdapters ==
    {"get_property_details", "get_property_details_rentcast", "get_property_details_realty"}

RecordReturned == pc = "done" /\ op \in DetailAdapters /\ outcome.kind = "return"

\* the property of the response the record was built from
ReceivedProperty ==
    CASE op = "get_property_details" -> response.body.property.items[1]
      [] op = "get_property_details_rentcast" -> response.body.items[1]
      [] op = "get_property_details_realty" ->
            GetList(response.body.properties, <<RealtyEmpty>>).items[1]

\* the Sale event of a Rentcast history with the greatest date, if any
SaleEvents(history) ==
    IF history.t # "list" THEN {}
    ELSE {history.items[i] : i \in {j \in 1..Len(history.items) :
                                       history.items[j].event = "Sale"}}

LatestSale(history) ==
    CHOOSE e \in SaleEvents(history) :
        \A f \in SaleEvents(history) : KeyRank(f.key) <= KeyRank(e.key)

\* the value the provider gives for the estimate and for the last sale
ProvidedEstimate ==
    CASE op = "get_property_details" -> ReceivedProperty.mktttlvalue
      [] op = "get_property_details_rentcast" ->
            Or(RentcastTaxValue(ReceivedProperty.taxAssessments), ReceivedProperty.valuation)
      [] op = "get_property_details_realty" -> ReceivedProperty.price

ProvidedSalePrice ==
    CASE op = "get_property_details" -> ReceivedProperty.saleamt
      [] op = "get_property_details_rentcast" ->
            IF SaleEvents(ReceivedProperty.history) = {} THEN Missing
            ELSE LatestSale(ReceivedProperty.history).price
      [] op = "get_property_details_realty" -> ReceivedProperty.last_sold_price

\* the amount a provided value names, in thousandths; 0 when it names none
Amount(x) ==
    IF x.t = "num" THEN x.v ELSE IF x.t = "str" THEN FloatOfDigits(x.s).v ELSE 0

\* the date and the price of the record's last_sold
SoldDate == outcome.value.last_sold[1]
SoldPrice == SubSeq(outcome.value.last_sold, 3, Len(outcome.value.last_sold))

\* chars is "$" and the amount with thousands separators, in full or in
\* whole dollars
IsCurrencyOf(chars, amount) ==
    /\ Len(chars) > 1
    /\ chars[1] = "$"
    /\ Tail(chars) \in {CommaNumber(amount), CommaInt(IntOf(amount))}
    /\ Magnitude(chars) \in {amount, IntOf(amount) * Scale}
    /\ amount >= Scale * Scale => \E i \in 1..Len(chars) : chars[i] = ","

SentinelOrCurrency(chars, sentinel, x) ==
    IF Amount(x) = 0 THEN chars = <<sentinel>> ELSE IsCurrencyOf(chars, Amount(x))

\* C16 (as claimed): in every record an adapter returns, estimated_value is
\* "Not available" when the provider's value is missing, null or zero and its
\* "$" rendering with thousands separators otherwise, and the last-sold price
\* is "Unknown" or such a rendering in the same way.
C16_SentinelOrCurrency ==
    RecordReturned =>
        /\ SentinelOrCurrency(outcome.value.estimated_value, "Not available", ProvidedEstimate)
        /\ SentinelOrCurrency(SoldPrice, "Unknown", ProvidedSalePrice)

\* a last-sold price the Realty provider gives as a text that names no amount
UnpricedText ==
    /\ op = "get_property_details_realty"
    /\ ProvidedSalePrice.t = "str"
    /\ ProvidedSalePrice.s # ""
    /\ Amount(ProvidedSalePrice) = 0

\* C16 (what the code does): the claim holds for estimated_value, and for the
\* last-sold price except that the Realty adapter renders a text that names
\* no amount ("N/A", "0") as "$0" instead of "Unknown".
C16_SentinelExceptUnpricedText ==
    RecordReturned =>
        /\ SentinelOrCurrency(outcome.value.estimated_value, "Not available", ProvidedEstimate)
        /\ IF UnpricedText THEN SoldPrice = <<"$", "0">>
           ELSE SentinelOrCurrency(SoldPrice, "Unknown", ProvidedSalePrice)

\* C16 (witness): the Realty adapter returned a record for a last_sold_price
\* of "N/A", and the record's last-sold price is "$0".
C16_Witness ==
    /\ RecordReturned
    /\ op = "get_property_details_realty"
    /\ ProvidedSalePrice = Str("N/A")
    /\ SoldPrice = <<"$", "0">>


\* the images or photos the provider returned (none for ATTOM, whose
\* adapter reads no images)
ReceivedImages ==
    CASE op = "get_property_details" -> <<>>
      [] op = "get_property_details_rentcast" ->
            IF ReceivedProperty.images.t = "list" THEN ReceivedProperty.images.items ELSE <<>>
      [] op = "get_property_details_realty" -> GetList(ReceivedProperty.photos, <<>>).items

\* C17: the photos of every record an adapter returns are at most 5, however
\* many images the provider returned.
C17_AtMostFivePhotos ==
    RecordReturned => Len(outcome.value.photos) <= 5

\* C17 (witness): the Rentcast adapter received more than 5 image URLs and
\* returned a record with the first 5 of them.
C17_Witness ==
    /\ RecordReturned
    /\ op = "get_property_details_rentcast"
    /\ Len(ReceivedImages) > 5
    /\ \A i \in 1..Len(ReceivedImages) : ReceivedImages[i].t = "str"
    /\ outcome.value.photos = [i \in 1..5 |-> ReceivedImages[i].s]


\* the property type the provider gives, "Unknown" standing for none
ProvidedType ==
    CASE op = "get_property_details" -> Get(ReceivedProperty.proptype, Str("Unknown")).s
      [] op = "get_property_details_rentcast" ->
            Get(ReceivedProperty.propertyType, Str("Unknown")).s
      [] op = "get_property_details_realty" -> Get(ReceivedProperty.prop_type, Str("Unknown")).s

\* the normalization table; a code not in it is unchanged
Normalized(code) ==
    CASE code = "SFR" -> "Single Family Residence"
      [] code = "CONDO" -> "Condominium"
      [] code = "TWNHS" -> "Townhouse"
      [] OTHER -> code

\* C18 (as claimed): in every adapter the record's property_type is the
\* provider's code mapped through the table SFR, CONDO, TWNHS, every other
\* code unchanged.
C18_TypeNormalizedInEveryAdapter ==
    RecordReturned => outcome.value.property_type = Normalized(ProvidedType)

\* C18 (what the code does): the ATTOM adapter maps the code through the
\* table; the Rentcast adapter passes every code through unchanged; the
\* Realty adapter turns a type containing "single" in any letter case into
\* "Single Family Residence" and passes every other type through unchanged.
C18_TypeNormalizedInAttomOnly ==
    RecordReturned =>
        outcome.value.property_type =
            CASE op = "get_property_details" -> Normalized(ProvidedType)
              [] op = "get_property_details_rentcast" -> ProvidedType
              [] op = "get_property_details_realty" ->
                    IF ProvidedType \in {"single_family", "Single Family"}
                    THEN "Single Family Residence" ELSE ProvidedType

\* C18 (witness): the Rentcast adapter received the code "SFR" and returned
\* a record whose property_type is still "SFR".
C18_Witness ==
    /\ RecordReturned
    /\ op = "get_property_details_rentcast"
    /\ ProvidedType = "SFR"
    /\ outcome.value.property_type = "SFR"


\* the last-sold date the provider gives
ProvidedSaleDate ==
    CASE op = "get_property_details" -> ReceivedProperty.salesearchdate
      [] op = "get_property_details_rentcast" ->
            IF SaleEvents(ReceivedProperty.history) = {} THEN Missing
            ELSE LatestSale(ReceivedProperty.history).date
      [] op = "get_property_details_realty" -> ReceivedProperty.last_sold_date

\* the long form of a date in ISO 8601 or YYYY-MM-DD form; "" for a text in
\* neither form
LongForm(date) ==
    CASE date \in {"2020-01-15", "2020-01-15T00:00:00.000Z"} -> "January 15, 2020"
      [] date = "2019-05-01" -> "May 01, 2019"
      [] date = "2021-03-01" -> "March 01, 2021"
      [] OTHER -> ""

\* the date as the claim wants it in the record
DateForRecord(date) == IF LongForm(date) # "" THEN LongForm(date) ELSE date

\* C19 (as claimed): in every adapter a last-sold date given in ISO 8601 or
\* YYYY-MM-DD form is in the record in the long form, and a date in no such
\* form is in the record unchanged; a given date is never dropped.
C19_DateLongFormInEveryAdapter ==
    (RecordReturned /\ ProvidedSaleDate.t = "str") =>
        SoldDate = DateForRecord(ProvidedSaleDate.s)

\* C19 (what the code does): the Rentcast adapter converts a parseable date
\* to the long form and keeps any other date unchanged; the ATTOM and Realty
\* adapters put every date into the record unchanged, parseable or not.
C19_DateLongFormInRentcastOnly ==
    (RecordReturned /\ ProvidedSaleDate.t = "str") =>
        SoldDate = IF op = "get_property_details_rentcast"
                   THEN DateForRecord(ProvidedSaleDate.s)
                   ELSE ProvidedSaleDate.s

\* C19 (witness): the ATTOM adapter received the sale date "2020-01-15" and
\* returned a record whose last_sold begins with "2020-01-15".
C19_Witness ==
    /\ RecordReturned
    /\ op = "get_property_details"
    /\ ProvidedSaleDate = Str("2020-01-15")
    /\ SoldDate = "2020-01-15"


\* the lot size and the unit the provider gives
ProvidedLotSize ==
    CASE op = "get_property_details" -> ReceivedProperty.lotsize1
      [] op = "get_property_details_rentcast" -> ReceivedProperty.lotSize
      [] op = "get_property_details_realty" -> ReceivedProperty.lot_size.size

ProvidedLotUnit ==
    CASE op = "get_property_details" -> ReceivedProperty.lotsize1unit
      [] op = "get_property_details_rentcast" -> Missing
      [] op = "get_property_details_realty" -> ReceivedProperty.lot_size.units

\* the provider reports no lot size: the field is missing, null or 0
NoLotSize == ProvidedLotSize.t \in {"missing", "null"} \/ Amount(ProvidedLotSize) = 0

\* lot_size is the value followed by its unit ("sq ft" when none is given)
ValueThenUnit ==
    LET lot_size == outcome.value.lot_size
        n == Len(lot_size)
    IN  /\ n >= 3
        /\ lot_size[n - 1] = " "
        /\ lot_size[n] = (IF ProvidedLotUnit.t = "str" THEN ProvidedLotUnit.s ELSE "sq ft")
        /\ \A i \in 1..(n - 2) : IsDigit(lot_size[i]) \/ lot_size[i] = "."
        /\ Magnitude(SubSeq(lot_size, 1, n - 2)) = Amount(ProvidedLotSize)

\* C20 (as claimed): in every adapter lot_size is "Not available" whenever
\* the provider's lot size is missing, null or 0, and otherwise the value
\* followed by its unit.
C20_LotSizeSentinelInEveryAdapter ==
    RecordReturned =>
        IF NoLotSize THEN outcome.value.lot_size = <<"Not available">> ELSE ValueThenUnit

\* C20 (what the code does): a lot size that is given and not 0 is rendered
\* as the value followed by its unit in every adapter; when none is given
\* the Rentcast adapter writes "Not available", the ATTOM adapter writes "0"
\* and the unit, and the Realty adapter writes "0" (or "None" for null) and
\* the unit.
C20_LotSizeSentinelInRentcastOnly ==
    RecordReturned =>
        IF ~NoLotSize THEN ValueThenUnit
        ELSE IF op = "get_property_details_rentcast"
        THEN outcome.value.lot_size = <<"Not available">>
        ELSE /\ Len(outcome.value.lot_size) = 3
             /\ outcome.value.lot_size[1] =
                    (IF op = "get_property_details_realty" /\ ProvidedLotSize.t = "null"
                     THEN "None" ELSE "0")
             /\ outcome.value.lot_size[2] = " "
             /\ outcome.value.lot_size[3] # "Not available"

\* C20 (witness): the ATTOM adapter received a property with no lotsize1 and
\* no unit and returned a record whose lot_size is "0 sq ft".
C20_Witness ==
    /\ RecordReturned
    /\ op = "get_property_details"
    /\ ProvidedLotSize = Missing
    /\ ProvidedLotUnit = Missing
    /\ outcome.value.lot_size = <<"0", " ", "sq ft">>


(***************************************************************************)
(* Properties of the test scripts of test_api.py.                          *)
(***************************************************************************)
TestDone == pc = "done" /\ op \in {"test_attom_property_details", "test_rentcast_property_details"}

\* the outcome of the adapter call the test made
AdapterOutcomeInTest ==
    IF op = "test_attom_property_details" THEN AttomAdapterOutcome(address, response)
    ELSE RentcastAdapterOutcome(address, response)

AdapterReturnedRecord ==
    /\ TestDone
    /\ response.kind # "none"
    /\ AdapterOutcomeInTest.kind = "return"

\* C21 (as claimed): every record of get_property_details and
\* get_property_details_rentcast has the fields last_sold_date and
\* last_sold_price, and the two tests return 0 whenever the adapter returns
\* a record.
C21_TestsSucceedOnRecord ==
    AdapterReturnedRecord =>
        /\ {"last_sold_date", "last_sold_price"} \subseteq DOMAIN AdapterOutcomeInTest.value
        /\ outcome.value.code = 0

\* C21 (what the code does): the record has the single field last_sold and
\* neither last_sold_date nor last_sold_price, so reading
\* result.last_sold_date raises and the tests return 1 in every run, with
\* or without a record.
C21_TestsAlwaysFail ==
    TestDone =>
        /\ outcome.value.code = 1
        /\ AdapterReturnedRecord =>
               /\ "last_sold" \in DOMAIN AdapterOutcomeInTest.value
               /\ "last_sold_date" \notin DOMAIN AdapterOutcomeInTest.value
               /\ "last_sold_price" \notin DOMAIN AdapterOutcomeInTest.value

\* C21 (witness): test_rentcast_property_details returned 1 although the
\* adapter returned a record with a last sale.
C21_Witness ==
    /\ AdapterReturnedRecord
    /\ op = "test_rentcast_property_details"
    /\ AdapterOutcomeInTest.value.last_sold = <<"January 15, 2020", " for ", "$", "1", "8", "0", ",", "0", "0", "0">>
    /\ outcome.value.code = 1


(***************************************************************************)
(* Properties of the calls with respect to the address and the credential. *)
(***************************************************************************)
\* the address is empty or consists of white space only
BlankAddress == Strip(address.s) = <<>>

\* the call ended in an error that is none of the other error outcomes
IsValidationError ==
    /\ outcome.kind = "raise" \/ (Prefix # "" /\ ~IsResult)
    /\ ~(outcome.kind = "raise" /\ outcome.value.exc = "TypeError")
    /\ ~IsMissingCredential
    /\ ~IsNotFound
    /\ ~IsUpstreamError

\* C22 (as claimed): a fetch given an empty or white-space-only address ends
\* in the validation-error outcome, and that outcome occurs for no other
\* address.
C22_BlankAddressRejected ==
    (pc = "done" /\ ~KeyNotConfigured(api_key)) => (IsValidationError <=> BlankAddress)

\* C22 (what the code does): no call checks the address.  With the
\* credential configured a blank address is sent to the provider like any
\* other, and the call ends as the response decides; no call ever ends in a
\* validation error.
C22_BlankAddressIsSent ==
    /\ (pc # "idle" /\ ~KeyNotConfigured(api_key)) => requests # <<>>
    /\ pc = "done" => ~IsValidationError

\* C22 (witness): get_property_details_rentcast was called with an address
\* of one space, sent it to the provider and returned a record.
C22_Witness ==
    /\ Done("get_property_details_rentcast")
    /\ address = StrArg(<<SP>>)
    /\ Len(requests) = 1
    /\ requests[1].params.address = <<SP>>
    /\ outcome.kind = "return"


\* the call ended in an error: something raised, or an error text returned
ErrorOutcome == pc = "done" /\ (outcome.kind = "raise" \/ (Prefix # "" /\ ~IsResult))

ValuationWithComparables ==
    /\ Done("property_valuation")
    /\ response.kind = "http"
    /\ response.status >= 200 /\ response.status <= 299
    /\ response.body.shape = "object"
    /\ response.body.comparables.t = "list"
    /\ ReceivedComps # <<>>

\* some comparable has squareFootage 0
SomeZeroArea == \E i \in 1..Len(ReceivedComps) : AreaOf(ReceivedComps[i]) = 0

\* the range bounds are numbers or absent
RangeReadable ==
    \A i \in 1..2 : response.body.range[i].t \in {"missing", "num"}

\* C24 (as claimed): for every 2xx JSON response with a non-empty list of
\* comparables property_valuation returns the report, also when some
\* comparable has squareFootage 0.
C24_ReportDespiteZeroArea == ValuationWithComparables => ReportReturned

\* C24 (what the code does): for such a response whose range bounds are
\* readable, the report is returned exactly when no comparable has
\* squareFootage 0; with such a comparable the average of price /
\* squareFootage divides by zero and the tool returns the error text.
C24_ErrorOnZeroArea ==
    (ValuationWithComparables /\ RangeReadable) =>
        IF SomeZeroArea
        THEN /\ outcome.kind = "return"
             /\ OutcomeText = <<"Error retrieving property valuation: ", "division by zero">>
        ELSE ReportReturned

\* C24 (witness): a 200 response with one comparable of squareFootage 0
\* ended in the error text.
C24_Witness ==
    /\ ValuationWithComparables
    /\ response.status = 200
    /\ Len(ReceivedComps) = 1
    /\ ReceivedComps[1].squareFootage = Whole(0)
    /\ OutcomeText = <<"Error retrieving property valuation: ", "division by zero">>


RECURSIVE DaysSum(_)
DaysSum(comps) ==
    IF comps = <<>> THEN 0 ELSE Head(comps).daysOnMarket.v + DaysSum(Tail(comps))

\* the thousandths of the whole part of x
WholePart(x) == (x \div Scale) * Scale

\* C25: for a provider list of n comparables the report lists exactly the
\* first min(5, n) of them, numbered 1..min(5, n) in provider order, while
\* the "found" count, the comparable count and the three averages are over
\* all n comparables.
C25_FirstFiveListedAllCounted ==
    (ReportReturned /\ response.body.comparables.t = "list") =>
        LET n == Len(ReceivedComps)
        IN  /\ Len(outcome.value.comps) = (IF n < 5 THEN n ELSE 5)
            /\ \A i \in 1..Len(outcome.value.comps) :
                   /\ Magnitude(outcome.value.comps[i].number) = i * Scale
                   /\ Magnitude(outcome.value.comps[i].price) = WholePart(ReceivedComp(i).price.v)
                   /\ Magnitude(outcome.value.comps[i].days_on_market)
                          = ReceivedComp(i).daysOnMarket.v
            /\ Magnitude(outcome.value.found) = n * Scale
            /\ Magnitude(outcome.value.count) = n * Scale
            /\ n > 0 =>
                   /\ Magnitude(outcome.value.avg_price) = WholePart(PriceSum(ReceivedComps) \div n)
                   /\ Magnitude(outcome.value.avg_days) = WholePart(DaysSum(ReceivedComps) \div n)
                   /\ Magnitude(outcome.value.avg_price_per_sqft)
                          = AverageOfRatios(ReceivedComps) * Scale

\* C25 (witness): a report for 6 comparables that lists 5 of them and
\* counts and averages 6.
C25_Witness ==
    /\ ReportReturned
    /\ Len(ReceivedComps) = 6
    /\ Len(outcome.value.comps) = 5
    /\ outcome.value.found = <<"6">>
    /\ outcome.value.count = <<"6">>
    /\ outcome.value.avg_price = <<"$", "3", ",", "5", "0", "0">>
    /\ outcome.value.avg_days = <<"1", "3", " ", "d", "a", "y", "s">>


(***************************************************************************)
(* Properties of the command-line loop and of the agent graph.             *)
(***************************************************************************)
\* the inputs that lower-case to exit, quit or bye
ExitInputs == {"exit", "QUIT", "Bye"}

\* a turn of the loop in which graph.invoke raises leaves the loop running
\* and the stored conversation as it was when graph.invoke started, which is
\* the conversation before the turn followed by the turn's user message
FailedTurnKeepsConversation ==
    op = "main" =>
        /\ (pc = "prompt" /\ pc' = "chatbot") =>
               /\ user_input' \notin ExitInputs
               /\ conversation_state' = Append(conversation_state, HumanMessage(user_input'))
        /\ pc \in {"chatbot", "tools"} => conversation_state' = conversation_state
        /\ pc = "raised" => (pc' = "prompt" /\ conversation_state' = conversation_state)
        /\ pc' = "exited" => (pc = "prompt" /\ user_input' \in ExitInputs)

ChatbotRan ==
    /\ pc \in {"tools", "returned", "raised"}
    /\ trace # <<>>
    /\ trace[Len(trace)] = "chatbot"

\* the messages the chatbot node received: the state before its response
\* was added
IncomingToChatbot == IF pc = "raised" THEN messages ELSE SubSeq(messages, 1, Len(messages) - 1)

IsSystem(m) == m.role = "system"

SystemCount(msgs) == Cardinality({i \in 1..Len(msgs) : IsSystem(msgs[i])})

\* C27: whenever the chatbot node has run, the list passed to the model
\* contains a system message; it is the incoming list with SYSTEM_PROMPT
\* put in front exactly when the incoming list holds no system message;
\* the node adds only the model's response to the state, so SYSTEM_PROMPT is
\* never in the stored conversation.
C27_SystemPromptOnlyForModel ==
    /\ ChatbotRan =>
           /\ SystemCount(processed_messages) >= 1
           /\ IF SystemCount(IncomingToChatbot) = 0
              THEN /\ processed_messages[1].role = "system"
                   /\ processed_messages[1].content = SYSTEM_PROMPT
                   /\ Tail(processed_messages) = IncomingToChatbot
              ELSE processed_messages = IncomingToChatbot
           /\ pc # "raised" => messages[Len(messages)].role = "assistant"
    /\ \A i \in 1..Len(messages) : messages[i].content # SYSTEM_PROMPT
    /\ \A i \in 1..Len(conversation_state) : conversation_state[i].content # SYSTEM_PROMPT

\* C27 (witness): the chatbot node ran on a list that already held a system
\* message and passed the list on as it was; and (in the loop) it ran on
\* a list without one and the stored conversation has no system message.
C27_Witness ==
    /\ ChatbotRan
    /\ pc = "returned"
    /\ \/ /\ op = "graph.invoke"
          /\ SystemCount(IncomingToChatbot) = 1
          /\ processed_messages = IncomingToChatbot
       \/ /\ op = "main"
          /\ SystemCount(messages) = 0
          /\ processed_messages[1].content = SYSTEM_PROMPT


\* one step of a run of the graph: after the tools node the chatbot node is
\* next, and graph.invoke returns only from the chatbot node, with a last
\* message of the model that requests no tool call
GraphStep ==
    /\ pc = "tools" => (pc' = "chatbot" /\ trace' = Append(trace, "tools"))
    /\ (pc # "returned" /\ pc' = "returned") =>
           /\ pc = "chatbot"
           /\ trace' = Append(trace, "chatbot")
           /\ messages'[Len(messages')].role = "assistant"
           /\ ~messages'[Len(messages')].tool_calls
    /\ (pc = "chatbot" /\ pc' = "tools") => messages'[Len(messages')].tool_calls
    /\ pc' \in {"returned", "raised"} => trace'[Len(trace')] = "chatbot"

\* C28: every execution of the tools node is immediately followed by the
\* chatbot node, a run started at the chatbot entry point ends only after a
\* chatbot step whose response requests no tool call, and the tools node is
\* never the last step of a run.
C28_ToolsThenChatbot == [][GraphStep]_vars

\* C28 (witness): a run that went chatbot, tools, chatbot and returned.
C28_Witness ==
    /\ pc = "returned"
    /\ trace = <<"chatbot", "tools", "chatbot">>
    /\ messages[Len(messages) - 1].role = "tool"
    /\ ~messages[Len(messages)].tool_calls

(***************************************************************************)
(* C29: the two valuation implementations against each other.              *)
(***************************************************************************)
\* the request a valuation call has sent
SentValuationRequest == requests[1]

\* a numeric response field, 0 when the provider left it out
FieldOr0(field) == Get(field, Whole(0)).v

\* C29: for the same address, hints and credential get_property_valuation
\* and property_valuation send one and the same request (the AVM endpoint
\* with the same parameter set), and both take the estimated value from the
\* response's price and the range bounds from priceRangeLow and
\* priceRangeHigh: the record holds them as received, the report shows
\* their whole dollars.
C29_SameRequestSameFields ==
    /\ ValuationRequestSent =>
           /\ Len(requests) = 1
           /\ SentValuationRequest
                  = Request(AvmUrl, ValuationParams(address, hints), api_key)
           /\ SentValuationRequest
                  = Request(AvmUrl, get_property_valuation_Params(address, hints), api_key)
    /\ ValuationRecordReturned =>
           /\ outcome.value.estimated_value = FieldOr0(response.body.price)
           /\ outcome.value.value_range_low = FieldOr0(response.body.range[1])
           /\ outcome.value.value_range_high = FieldOr0(response.body.range[2])
    /\ (ReportReturned /\ IsNumber(Get(response.body.price, Whole(0)))) =>
           /\ Magnitude(outcome.value.estimated_value)
                  = WholePart(FieldOr0(response.body.price))
           /\ Magnitude(outcome.value.range_low)
                  = WholePart(FieldOr0(response.body.range[1]))
           /\ Magnitude(outcome.value.range_high)
                  = WholePart(FieldOr0(response.body.range[2]))

\* C29 (witness): property_valuation, called with every hint, has sent the
\* request get_property_valuation builds for them and returned a report
\* whose estimate and range are the response's 221000, 208000 and 234000.
C29_Witness ==
    /\ ReportReturned
    /\ hints = AllHints
    /\ SentValuationRequest
           = Request(AvmUrl, get_property_valuation_Params(address, hints), api_key)
    /\ response.body.price = Whole(221000)
    /\ response.body.range = <<Whole(208000), Whole(234000)>>
    /\ Magnitude(outcome.value.range_low) = 208000 * Scale

(***************************************************************************)
(* C30: the estimated value of get_property_details_rentcast.              *)
(***************************************************************************)
RentcastRecordReturned ==
    /\ Done("get_property_details_rentcast")
    /\ outcome.kind = "return"

\* the items of the received taxAssessments dict
ReceivedAssessments ==
    IF ReceivedProperty.taxAssessments.t = "list"
    THEN ReceivedProperty.taxAssessments.items ELSE <<>>

\* the assessments whose key is all digits, and the one of the greatest year
DigitYearItems(items) == {i \in 1..Len(items) : IsDigitText(items[i].year)}

GreatestYearItem(items) ==
    items[CHOOSE i \in DigitYearItems(items) :
              \A j \in DigitYearItems(items) : IntOfText(items[j].year) <= IntOfText(items[i].year)]

GreatestYearValue(items) ==
    IF DigitYearItems(items) = {} THEN 0
    ELSE Get(GreatestYearItem(items).value, Whole(0)).v

\* the key of the greatest year is the decimal rendering of that year
GreatestYearKeyIsCanonical(items) ==
    /\ DigitYearItems(items) # {}
    /\ GreatestYearItem(items).year = TextOfInt(IntOfText(GreatestYearItem(items).year))

\* the record's estimated_value shows amount, or the sentinel for 0
EstimateShows(amount) ==
    IF amount = 0 THEN outcome.value.estimated_value = <<"Not available">>
    ELSE /\ outcome.value.estimated_value[1] = "$"
         /\ Magnitude(outcome.value.estimated_value) = amount

\* tax value, else the valuation field, else 0
FirstNonZero(tax_value, valuation) ==
    IF tax_value # 0 THEN tax_value ELSE Get(valuation, Whole(0)).v

\* C30 (as claimed): the estimated value is the "value" of the tax
\* assessment whose key is the greatest all-digit year when that value is
\* non-zero, otherwise the valuation field when that is non-zero, otherwise
\* "Not available".
C30_EstimateFromGreatestYear ==
    RentcastRecordReturned =>
        EstimateShows(FirstNonZero(GreatestYearValue(ReceivedAssessments),
                                   ReceivedProperty.valuation))

\* C30 (what the code does): the assessment of the greatest all-digit year
\* is used only when its key is the decimal rendering of that year; for a
\* key such as "02024" no assessment is found under "2024", the tax value
\* is 0 and the valuation field or "Not available" is shown.
C30_EstimateFromCanonicalYearKey ==
    RentcastRecordReturned =>
        EstimateShows(FirstNonZero(IF GreatestYearKeyIsCanonical(ReceivedAssessments)
                                   THEN GreatestYearValue(ReceivedAssessments) ELSE 0,
                                   ReceivedProperty.valuation))

\* C30 (witness): assessments "2023" of 210000 and "02024" of 220000 and no
\* valuation field: the record's estimated value is "Not available".
C30_Witness ==
    /\ RentcastRecordReturned
    /\ Len(ReceivedAssessments) = 2
    /\ ReceivedAssessments[2] = Assessment("02024", Whole(220000))
    /\ ReceivedProperty.valuation = Missing
    /\ outcome.value.estimated_value = <<"Not available">>

====
